---- MODULE Spec2Model ----
(***************************************************************************)
(* jfigge/clif: the configuration engine of src/configuration.go.          *)
(*                                                                         *)
(* InitConfig is modelled statement group by statement group (pc), over a  *)
(* caller-supplied settings structure (a sequence of top-level fields), a  *)
(* heap of Configuration objects reached through pointers, and the list of *)
(* options the caller passes.  What the operating system and the decoding  *)
(* libraries answer (user lookup, watcher creation, file read, file        *)
(* content) is chosen when the code asks for it.                           *)
(***************************************************************************)
EXTENDS Integers, Sequences, FiniteSets, TLC

\* ------------------------------------------------------------------ bounds
MaxFields == 2
MaxOptions == 2
\* the calls of AddNotifyOnChange the application makes
MaxRegistrations == 2
\* the consoles NewConsole starts
MaxConsoles == 3

\* ------------------------------------------------------------------ values
\* a nil pointer; addresses of heap objects are 1, 2, ...
NIL == 0

\* reflect.Type, as far as the code looks at it: the kind and the named type
NoType == [kind |-> "nil", base |-> ""]
StructType(b) == [kind |-> "struct", base |-> b]
PtrType(b) == [kind |-> "ptr", base |-> b]
StringType == [kind |-> "string", base |-> "string"]

configurationType == StructType("clif.Configuration")
configurationTypePtr == PtrType("clif.Configuration")

\* clif.Alias stands for a caller's `type Alias clif.Configuration`: a distinct
\* defined type with the same underlying struct type.
Underlying(b) == IF b = "clif.Alias" THEN "clif.Configuration" ELSE b

\* reflect.Type.String()
TypeString(t) == IF t.kind = "ptr" THEN <<"*", t.base>> ELSE <<t.base>>

\* reflect.Value.CanConvert for the two targets the code asks about
CanConvert(t, target) ==
    /\ t.kind = target.kind
    /\ t.kind \in {"ptr", "struct"}
    /\ Underlying(t.base) = Underlying(target.base)

\* reflect.Value.Set: a value of type src is assignable to a field of type dst
AssignableTo(src, dst) == src = dst

\* ------------------------------------------------------------------ errors
ErrMissingCoreConfig == "CC01"
ErrAnonymousCoreConfig == "CC02"
ErrUnmarshalCoreConfig == "CC03"
ErrUnmarshalLoggerData == "CC03LC01"
ErrUnmarshalConsoleData == "CC03CC01"
ErrFileReadCoreConfig == "CC04"
ErrNonExportedCoreConfig == "CC05"

\* &InvalidInitConfigError{Code, err, Type}
InvalidInitConfigError(code, err, type) ==
    [class |-> "InvalidInitConfigError", Code |-> code, err |-> err, Type |-> type]
\* an error of another package (os/user, fsnotify), returned as it is
ForeignError(text) ==
    [class |-> "error", Code |-> "", err |-> text, Type |-> NoType]

\* InvalidInitConfigError.Error(): the message, as the pieces it is joined from
ErrorNoEmbeddedCase(e) ==
    CASE e.Code = ErrMissingCoreConfig ->
           <<"configuration error - InitConfig(core configuration not present)">>
      [] e.Code = ErrAnonymousCoreConfig ->
           <<"configuration error - InitConfig(core configuration is anonymous)">>
      [] e.Code = ErrNonExportedCoreConfig ->
           <<"configuration error - InitConfig(core configuration is unexported)">>
      [] e.Code \in {ErrUnmarshalCoreConfig, ErrUnmarshalLoggerData,
                     ErrUnmarshalConsoleData, ErrFileReadCoreConfig} ->
           <<"configuration error - ", e.err>>
      [] OTHER ->
           IF e.Type = NoType
             THEN <<"configuration error - InitConfig(nil)">>
             ELSE IF e.Type.kind # "ptr"
               THEN <<"configuration error - InitConfig(non-pointer ">>
                      \o TypeString(e.Type) \o <<")">>
               ELSE <<"configuration error - InitConfig(nil ">>
                      \o TypeString(e.Type) \o <<")">>

Error(e) ==
    CASE e.Code = ErrMissingCoreConfig ->
           <<"configuration error - InitConfig(core configuration not present)">>
      [] e.Code = ErrAnonymousCoreConfig ->
           <<"configuration error - InitConfig(core configuration is anonymous)">>
      [] e.Code = ErrNonExportedCoreConfig ->
           <<"configuration error - InitConfig(core configuration is unexported)">>
      [] e.Code \in {ErrUnmarshalCoreConfig, ErrUnmarshalLoggerData,
                     ErrUnmarshalConsoleData, ErrFileReadCoreConfig} ->
           <<"configuration error - ", e.err>>
      [] OTHER ->
           IF e.Type = NoType
             THEN <<"configuration error - InitConfig(nil)">>
             ELSE IF e.Type = configurationType
               THEN <<"configuration error - InitConfig(non-pointer of embedded ">>
                      \o TypeString(e.Type) \o <<")">>
               ELSE IF e.Type.kind # "ptr"
                 THEN <<"configuration error - InitConfig(non-pointer ">>
                        \o TypeString(e.Type) \o <<")">>
                 ELSE <<"configuration error - InitConfig(nil ">>
                        \o TypeString(e.Type) \o <<")">>

\* ------------------------------------------------------------------ objects
\* A pointer held inside a Configuration is <<>> when nil and <<v>> otherwise.
\* configurationMetadata{} as allocated by reflect.New
ZeroMetadata ==
    [appName |-> "", configFile |-> "", homeDir |-> "", configDir |-> "",
     load |-> FALSE, watch |-> FALSE, watcher |-> FALSE]
\* Configuration{}
ZeroConfiguration ==
    [data |-> <<>>, Metadata |-> <<>>, Logger |-> <<>>, Console |-> <<>>]
\* &configurationData{notifyFuncs: make(map...)}: per setting, its callbacks
EmptyData == [notifyFuncs |-> <<>>]
\* LoggerConfiguration{} and ConsoleConfiguration{} as allocated by reflect.New
ZeroSection == [loaded |-> FALSE]
\* a section built from the file by newLoggerConfiguration / newConsoleConfiguration
FileSection == [loaded |-> TRUE]

\* what the process sees of its environment
Argv0 == "/usr/bin/prog"
HomeDir == "/home/user"
\* filepath.Join(homeDir, configFile) for the names used here
Join(dir, file) == dir \o "/" \o file

\* ------------------------------------------------------------------ inputs
\* A top-level field of the caller's structure: its declared type, whether it is
\* embedded, whether its name is exported, and its value (ptr for a pointer, str
\* for a string, obj = <<v>> for a Configuration held by value).
Field(t, anon, exp, p, s, o) ==
    [type |-> t, anonymous |-> anon, exported |-> exp, ptr |-> p, str |-> s, obj |-> o]

\* a Core Configuration left by an earlier, successful InitConfig (no load, no
\* watch) on which the application has registered a callback since
ExistingAddr == 1
ExistingCore ==
    [data |-> <<[notifyFuncs |-> [s \in {"LEVEL"} |-> <<"cb1">>]]>>,
     Metadata |-> <<[appName |-> Argv0, configFile |-> "config.yaml",
                     homeDir |-> HomeDir, configDir |-> Join(HomeDir, "config.yaml"),
                     load |-> FALSE, watch |-> FALSE, watcher |-> FALSE]>>,
     Logger |-> <<>>, Console |-> <<>>]

FieldVariants ==
    { Field(StringType, FALSE, FALSE, NIL, "name", <<>>),
      Field(StringType, FALSE, TRUE, NIL, "Name", <<>>),
      Field(configurationTypePtr, FALSE, TRUE, NIL, "", <<>>),
      Field(configurationTypePtr, FALSE, TRUE, ExistingAddr, "", <<>>),
      Field(configurationTypePtr, FALSE, FALSE, NIL, "", <<>>),
      Field(configurationTypePtr, TRUE, TRUE, NIL, "", <<>>),
      Field(configurationType, FALSE, TRUE, NIL, "", <<ZeroConfiguration>>),
      Field(configurationType, FALSE, FALSE, NIL, "", <<ZeroConfiguration>>),
      Field(configurationType, TRUE, TRUE, NIL, "", <<ZeroConfiguration>>),
      Field(PtrType("clif.Alias"), FALSE, TRUE, NIL, "", <<>>) }

RECURSIVE SeqsUpTo(_, _)
SeqsUpTo(S, n) ==
    IF n = 0 THEN {<<>>}
    ELSE LET shorter == SeqsUpTo(S, n - 1)
         IN shorter \cup {Append(q, x) : q \in {r \in shorter : Len(r) = n - 1}, x \in S}

\* the settings structures handed to InitConfig
Structures == SeqsUpTo(FieldVariants, MaxFields)

\* the `configuration interface{}` argument: its dynamic type, whether it is a
\* nil pointer, and the kind of what a pointer points to
Argument(t, isNil, elem) == [type |-> t, isNil |-> isNil, elem |-> elem]
SettingsArgument == Argument(PtrType("clif.settings"), FALSE, "struct")
InvalidArguments ==
    { Argument(NoType, TRUE, ""),
      Argument(StructType("clif.configA"), FALSE, ""),
      Argument(StructType("clif.configB"), FALSE, ""),
      Argument(configurationType, FALSE, ""),
      Argument(PtrType("clif.configB"), TRUE, "struct"),
      Argument(configurationTypePtr, TRUE, "struct") }
NonStructArguments == { Argument(PtrType("int"), FALSE, "int") }

\* the ConfigurationOption values the package offers
Option(op, v) == [op |-> op, v |-> v]
ConfigurationOptions ==
    { Option("NoLoad", ""), Option("NoWatch", ""),
      Option("AppName", "myapp"), Option("ConfigDir", "/etc/myapp"),
      Option("ConfigFile", "app.json"), Option("ConfigFile", "") }
OptionLists == SeqsUpTo(ConfigurationOptions, MaxOptions)

\* ------------------------------------------------------------------ state
VARIABLES
    arg,        \* the configuration argument of the InitConfig call
    options,    \* the options of the call
    config,     \* the caller's structure: its top-level fields, in declaration order
    config0,    \* the structure as it was when InitConfig was called
    heap,       \* the Configuration objects, by address
    pc,         \* where InitConfig is
    i,          \* InitConfig's field index (from 1)
    c,          \* InitConfig's local c
    found,      \* InitConfig's local found
    applied,    \* how many options newConfiguration has applied
    watching,   \* the Configuration objects whose watch task has been started
    fileReads,  \* how many times the configuration file has been read
    readError,  \* the error of os.ReadFile, when it failed
    walks,      \* how many times InitConfig has run walkStructure
    result      \* what InitConfig returned

initVars == <<arg, options, config, config0, heap, pc, i, c, found, applied,
              watching, fileReads, readError, walks, result>>

\* Configuration.unmarshalLoad, called by UnmarshalJSON / UnmarshalYAML
VARIABLES
    values,     \* the decoded mapping handed to unmarshalLoad
    visited,    \* the keys the range loop has visited, in the order it did
    core,       \* the receiver's Logger and Console sections
    loadErr,    \* unmarshalLoad's local err
    loadPc,     \* where the decoding of the Core Configuration is
    loadResult  \* what unmarshalLoad returned

loadVars == <<values, visited, core, loadErr, loadPc, loadResult>>

\* unmarshalConfigFile and walkStructure over a nested settings structure
VARIABLES
    root,        \* the caller's structure: the value of each of its fields
    objects,     \* what the pointers of the structure point to, by address
    fileSays,    \* what the configuration file says, field by field
    environment, \* the leaf settings the environment has a value for
    loading,     \* Metadata.load of the Core Configuration
    walkPc,      \* where InitConfig is with the structure
    firstWalk,   \* the structure and the objects after the first walk
    given,       \* the providers a call of walkStructure is given (fs)
    began,       \* the structure and the objects the call began with
    provided,    \* the providers applied so far, each with the leaf it was applied to
    walkErr      \* what the outermost call of walkStructure returned

providedVars == <<given, began, provided, walkErr>>
walkVars == <<root, objects, fileSays, environment, loading, walkPc, firstWalk, providedVars>>

\* Configuration.watch, and the goroutines of the application beside it
VARIABLES
    ctxDone,     \* the caller's context has been cancelled
    watchPc,     \* where the watch task is ("" before it is started)
    watcherOpen, \* Metadata.watcher has been created and is not closed
    ticker,      \* the ticker of watch: running or stopped, a tick waiting in C
    channels,    \* the Events and Errors channels: closed, what waits to be
                 \* sent, what watch received last
    environ,     \* the environment variables of the settings
    wg,          \* Metadata.wg: whether it is set, and its counter
    waitPc,      \* "waited" when the caller's wg.Wait() has returned
    fatal,       \* the runtime has ended the process with a fatal error
    notifyFuncs, \* configurationData.notifyFuncs
    lock,        \* the goroutine that holds configurationData.lock ("" for none)
    appPc,       \* where each caller of AddNotifyOnChange is in it
    adding,      \* the arguments of each caller's call
    calls,       \* how many calls of AddNotifyOnChange have been started
    acquired,    \* the arguments of the calls, in the order they took the lock
    ranged,      \* the settings checkForEnvChange has visited in this tick
    calling,     \* the callbacks of the current setting still to be called
    polled,      \* the setting being visited and the value read for it
    invoked,     \* the calls of callbacks made in this tick, in order
    atTick       \* notifyFuncs as it was when the range of this tick began

\* the registry and the calls of AddNotifyOnChange
registryVars == <<notifyFuncs, lock, appPc, adding, calls, acquired>>
\* checkForEnvChange
tickVars == <<ranged, calling, polled, invoked, atTick>>
nonRegistryVars == <<ctxDone, watchPc, watcherOpen, ticker, channels, environ, wg,
                     waitPc, fatal>>
watchVars == <<nonRegistryVars, registryVars, tickVars>>

\* NewConsole and StopConsole (console.go)
VARIABLES
    singletonConsole, \* the package variable: a console, or NIL
    synchronize,      \* the goroutine that holds the package mutex ("" for none)
    consoles,         \* the consoles whose startConsole succeeded, in order
    newPc,            \* where each caller of NewConsole is in it
    newCtx,           \* the context each caller passed
    got,              \* what each caller's last call returned
    cancelled         \* the contexts that have been cancelled

consoleVars == <<singletonConsole, synchronize, consoles, newPc, newCtx, got,
                 cancelled>>

\* the keyboard reader task (keyboard.go)
VARIABLES
    kbPc,       \* where readMonitoredInput is ("" before NewKeyboard)
    kbCtx,      \* whether the context of the keyboard is cancelled
    stopFunc,   \* whether KeyboardOptionStopNotify was passed
    stopCalls,  \* how many times the stop-notify function has been called
    reqChan,    \* the value the application is sending on the request channel
    stdin,      \* the bytes the last read of standard input gave
    pressed,    \* the key MakeKey made of them
    accepted,   \* how many true values the task has received
    reads,      \* how many reads of standard input gave bytes
    sentKeys    \* how many keys the consumer has received

keyboardVars == <<kbPc, kbCtx, stopFunc, stopCalls, reqChan, stdin, pressed, accepted,
                  reads, sentKeys>>

\* Logger and History (logger.go)
VARIABLES
    history,    \* l.history of the Logger NewLogger returned (NIL, or a History)
    messages,   \* h.messages of the History
    hSync,      \* the goroutine that holds h.sync ("" for none)
    logPc,      \* where each goroutine is in its call
    logMsg,     \* the message each goroutine is adding
    issued,     \* how many messages the goroutines have made (the k-th is HistoryMax + k)
    appended    \* the messages in the order History.add appended them

loggerVars == <<history, messages, hSync, logPc, logMsg, issued, appended>>

\* the variables InitConfig does not touch
others == <<loadVars, walkVars, watchVars, consoleVars, keyboardVars, loggerVars>>
\* the variables the decoding of the Core Configuration does not touch
loadOthers == <<initVars, walkVars, watchVars, consoleVars, keyboardVars, loggerVars>>
\* the variables the loading of a nested structure does not touch
walkOthers == <<initVars, loadVars, watchVars, consoleVars, keyboardVars, loggerVars>>
\* the variables the watch task and the registrations do not touch
watchOthers == <<initVars, loadVars, walkVars, consoleVars, keyboardVars, loggerVars>>
\* the variables the consoles do not touch
consoleOthers == <<initVars, loadVars, walkVars, watchVars, keyboardVars, loggerVars>>
\* the variables the keyboard does not touch
keyboardOthers == <<initVars, loadVars, walkVars, watchVars, consoleVars, loggerVars>>
\* the variables the logger does not touch
loggerOthers == <<initVars, loadVars, walkVars, watchVars, consoleVars, keyboardVars>>

vars == <<initVars, others>>

Running == [status |-> "running", err |-> <<>>]
ReturnNil == [status |-> "returned", err |-> <<>>]
ReturnErr(e) == [status |-> "returned", err |-> <<e>>]
Panic == [status |-> "panic", err |-> <<>>]

\* no Core Configuration is being decoded
LoadIdle ==
    /\ values = <<>>
    /\ visited = <<>>
    /\ core = <<>>
    /\ loadErr = <<>>
    /\ loadPc = ""
    /\ loadResult = Running

\* no nested structure is being loaded
ProvidedIdle ==
    /\ given = <<>>
    /\ began = <<>>
    /\ provided = <<>>
    /\ walkErr = <<>>

WalkIdle ==
    /\ root = <<>>
    /\ objects = <<>>
    /\ fileSays = <<>>
    /\ environment = {}
    /\ loading = FALSE
    /\ walkPc = ""
    /\ firstWalk = <<>>
    /\ ProvidedIdle

\* the goroutines of the application that register callbacks
Goroutines == {"main", "worker"}
\* the watch task, whose callbacks may register callbacks
WatchTask == "watch"
Callers == Goroutines \cup {WatchTask}
\* the environment variables of the level and of colorized (logger.go 21-22),
\* of which the first is marked monitored
LevelSetting == "APP_LOGGER_LEVEL"
Settings == {LevelSetting, "APP_LOGGER_COLORIZED"}
Monitored == {LevelSetting}
EnvValues == {"", "debug"}
TickerState(running, waiting) == [running |-> running, waiting |-> waiting]
ChannelState(closed, sending, received) ==
    [closed |-> closed, sending |-> sending, received |-> received]
WaitGroupState(set, count) == [set |-> set, count |-> count]

\* no keyboard is looked at
KeyboardIdle ==
    /\ kbPc = ""
    /\ kbCtx = FALSE
    /\ stopFunc = FALSE
    /\ stopCalls = 0
    /\ reqChan = <<>>
    /\ stdin = <<>>
    /\ pressed = <<>>
    /\ accepted = 0
    /\ reads = 0
    /\ sentKeys = 0

\* no logger is looked at
LoggerIdle ==
    /\ history = NIL
    /\ messages = <<>>
    /\ hSync = ""
    /\ logPc = <<>>
    /\ logMsg = <<>>
    /\ issued = 0
    /\ appended = <<>>

\* no console is looked at
ConsoleIdle ==
    /\ singletonConsole = NIL
    /\ synchronize = ""
    /\ consoles = <<>>
    /\ newPc = <<>>
    /\ newCtx = <<>>
    /\ got = <<>>
    /\ cancelled = {}

\* no console, keyboard or logger is looked at
TerminalIdle ==
    /\ ConsoleIdle
    /\ KeyboardIdle
    /\ LoggerIdle

\* no watch task is looked at
WatchIdle ==
    /\ ctxDone = FALSE
    /\ watchPc = ""
    /\ watcherOpen = FALSE
    /\ ticker = TickerState(FALSE, FALSE)
    /\ channels = ChannelState(FALSE, "", "")
    /\ environ = <<>>
    /\ wg = WaitGroupState(FALSE, 0)
    /\ waitPc = ""
    /\ fatal = FALSE
    /\ notifyFuncs = <<>>
    /\ lock = ""
    /\ appPc = <<>>
    /\ adding = <<>>
    /\ calls = 0
    /\ acquired = <<>>
    /\ ranged = {}
    /\ calling = <<>>
    /\ polled = [setting |-> "", value |-> ""]
    /\ invoked = <<>>
    /\ atTick = <<>>

Init ==
    /\ arg \in InvalidArguments \cup NonStructArguments \cup {SettingsArgument}
    /\ options \in OptionLists
    /\ config \in (IF arg = SettingsArgument THEN Structures ELSE {<<>>})
    /\ config0 = config
    /\ heap = <<ExistingCore>>
    /\ pc = "call"
    /\ i = 1
    /\ c = NIL
    /\ found = FALSE
    /\ applied = 0
    /\ watching = {}
    /\ fileReads = 0
    /\ readError = <<>>
    /\ walks = 0
    /\ result = Running
    /\ LoadIdle
    /\ WalkIdle
    /\ WatchIdle
    /\ TerminalIdle

\* ------------------------------------------------------------------ InitConfig
\* Which branch of the field loop a field takes, in the order the code tests:
\*   "anonymous"  a pointer-convertible field that is embedded       -> CC02
\*   "unexported" a named pointer-convertible field, not exported    -> CC05
\*   "panic"      field.Set of a *Configuration the field cannot hold
\*   "set"        field.Set(reflect.ValueOf(c)) and on to the defaults
\*   "value"      a field convertible to Configuration itself        -> Type error
\*   "next"       any other field
fieldBranchUnsafe(field) ==
    IF CanConvert(field.type, configurationTypePtr)
      THEN IF field.anonymous THEN "anonymous"
           ELSE IF ~AssignableTo(configurationTypePtr, field.type) THEN "panic"
           ELSE "set"
      ELSE IF CanConvert(field.type, configurationType) THEN "value"
      ELSE "next"

fieldBranchNoAnonymous(field) ==
    IF CanConvert(field.type, configurationTypePtr)
      THEN IF ~field.exported THEN "unexported"
           ELSE IF ~AssignableTo(configurationTypePtr, field.type) THEN "panic"
           ELSE "set"
      ELSE IF CanConvert(field.type, configurationType) THEN "value"
      ELSE "next"

fieldBranch(field) ==
    IF CanConvert(field.type, configurationTypePtr)
      THEN IF field.anonymous THEN "anonymous"
           ELSE IF ~field.exported THEN "unexported"
           ELSE IF ~AssignableTo(configurationTypePtr, field.type) THEN "panic"
           ELSE "set"
      ELSE IF CanConvert(field.type, configurationType) THEN "value"
      ELSE "next"

\* the field after the loop body has run on it: written only by field.Set
fieldAfterEarlySet(field, branch, addr) ==
    IF branch \in {"set", "unexported"} THEN [field EXCEPT !.ptr = addr] ELSE field

fieldAfter(field, branch, addr) ==
    IF branch = "set" THEN [field EXCEPT !.ptr = addr] ELSE field

\* the error the loop body returns on a branch that returns one
branchError(branch) ==
    CASE branch = "anonymous" -> InvalidInitConfigError(ErrAnonymousCoreConfig, "", NoType)
      [] branch = "unexported" -> InvalidInitConfigError(ErrNonExportedCoreConfig, "", NoType)
      [] branch = "value" -> InvalidInitConfigError("", "", configurationType)

\* line 59: rv.Kind() != reflect.Pointer || rv.IsNil()
invalidArgumentNoNilCheck(a) == a.type.kind # "ptr"

invalidArgument(a) == a.type.kind # "ptr" \/ a.isNil

\* lines 57-64: the argument check and the locals
InitConfig ==
    /\ pc = "call"
    /\ IF invalidArgument(arg)
         THEN /\ result' = ReturnErr(InvalidInitConfigError("", "", arg.type))
              /\ pc' = "done"
         ELSE /\ pc' = "scan"
              /\ UNCHANGED result
    /\ c' = NIL
    /\ found' = FALSE
    /\ i' = 1
    /\ UNCHANGED <<arg, options, config, config0, heap, applied, watching, fileReads>>
    /\ UNCHANGED <<readError, walks>>
    /\ UNCHANGED others

\* lines 65-79 and 97-100: one turn of the loop over the top-level fields
InitConfigField ==
    /\ pc = "scan"
    /\ IF arg.elem # "struct"
         THEN \* reflect.Value.NumField on a value that is no struct
              /\ result' = Panic
              /\ pc' = "done"
              /\ UNCHANGED <<config, heap, i, c>>
         ELSE IF i > Len(config)
         THEN \* the loop condition fails: on to line 102
              /\ pc' = "after"
              /\ UNCHANGED <<config, heap, i, c, result>>
         ELSE /\ LET field == config[i]
                     branch == fieldBranch(field)
                     alloc == branch \in {"unexported", "panic", "set"} /\ c = NIL
                     addr == IF alloc THEN Len(heap) + 1 ELSE c
                 IN /\ heap' = IF alloc THEN Append(heap, ZeroConfiguration) ELSE heap
                    /\ c' = IF branch \in {"unexported", "panic", "set"} THEN addr ELSE c
                    /\ config' = [config EXCEPT ![i] = fieldAfter(field, branch, addr)]
                    /\ CASE branch \in {"anonymous", "unexported", "value"} ->
                              /\ result' = ReturnErr(branchError(branch))
                              /\ pc' = "done"
                              /\ UNCHANGED i
                         [] branch = "panic" ->
                              /\ result' = Panic
                              /\ pc' = "done"
                              /\ UNCHANGED i
                         [] branch = "set" ->
                              /\ pc' = "defaults"
                              /\ UNCHANGED <<result, i>>
                         [] OTHER ->
                              /\ i' = i + 1
                              /\ UNCHANGED <<result, pc>>
    /\ UNCHANGED <<arg, options, config0, found, applied, watching, fileReads>>
    /\ UNCHANGED <<readError, walks>>
    /\ UNCHANGED others

\* lines 164-179
metadataDefaults(m) ==
    LET m1 == [m EXCEPT !.load = TRUE, !.watch = TRUE, !.appName = Argv0,
                        !.configFile = "config.yaml", !.homeDir = HomeDir]
    IN [m1 EXCEPT !.configDir = Join(m1.homeDir, m1.configFile)]

setMetadataDefaults ==
    /\ pc = "defaults"
    /\ \E userKnown \in BOOLEAN :
         IF ~userKnown
           THEN \* user.Current() fails
                /\ result' = ReturnErr(ForeignError("user: Current"))
                /\ pc' = "done"
                /\ UNCHANGED heap
           ELSE /\ heap' = [heap EXCEPT ![c].Metadata =
                               <<metadataDefaults(IF @ = <<>> THEN ZeroMetadata ELSE @[1])>>]
                /\ pc' = "newConfiguration"
                /\ UNCHANGED result
    /\ UNCHANGED <<arg, options, config, config0, i, c, found, applied,
                   watching, fileReads>>
    /\ UNCHANGED <<readError, walks>>
    /\ UNCHANGED others

\* lines 182-186: the notification registry is created when absent
newConfiguration ==
    /\ pc = "newConfiguration"
    /\ heap' = [heap EXCEPT ![c].data = IF @ = <<>> THEN <<EmptyData>> ELSE @]
    /\ applied' = 0
    /\ pc' = "options"
    /\ UNCHANGED <<arg, options, config, config0, i, c, found, watching,
                   fileReads, result>>
    /\ UNCHANGED <<readError, walks>>
    /\ UNCHANGED others

\* lines 344-379: what each option does to the Metadata
applyOptionLoadKept(m, o) ==
    CASE o.op = "AppName" -> [m EXCEPT !.appName = o.v]
      [] o.op = "ConfigDir" -> [m EXCEPT !.configDir = o.v]
      [] o.op = "ConfigFile" -> [m EXCEPT !.configFile = o.v]
      [] o.op = "NoLoad" -> m
      [] o.op = "NoWatch" -> [m EXCEPT !.watch = FALSE]

applyOptionWatchKept(m, o) ==
    CASE o.op = "AppName" -> [m EXCEPT !.appName = o.v]
      [] o.op = "ConfigDir" -> [m EXCEPT !.configDir = o.v]
      [] o.op = "ConfigFile" -> [m EXCEPT !.configFile = o.v]
      [] o.op = "NoLoad" -> [m EXCEPT !.load = FALSE]
      [] o.op = "NoWatch" -> m

applyOption(m, o) ==
    CASE o.op = "AppName" -> [m EXCEPT !.appName = o.v]
      [] o.op = "ConfigDir" -> [m EXCEPT !.configDir = o.v]
      [] o.op = "ConfigFile" -> [m EXCEPT !.configFile = o.v]
      [] o.op = "NoLoad" -> [m EXCEPT !.load = FALSE]
      [] o.op = "NoWatch" -> [m EXCEPT !.watch = FALSE]

\* lines 188-192: one turn of the loop over the options (no option fails)
newConfigurationOption ==
    /\ pc = "options"
    /\ applied < Len(options)
    /\ heap' = [heap EXCEPT ![c].Metadata = <<applyOption(@[1], options[applied + 1])>>]
    /\ applied' = applied + 1
    /\ UNCHANGED <<arg, options, config, config0, pc, i, c, found, watching,
                   fileReads, result>>
    /\ UNCHANGED <<readError, walks>>
    /\ UNCHANGED others

\* lines 194-203: the watcher is created and its task started
newConfigurationWatch ==
    /\ pc = "options"
    /\ applied = Len(options)
    /\ IF heap[c].Metadata[1].watch
         THEN \E created \in BOOLEAN :
                IF created
                  THEN /\ heap' = [heap EXCEPT ![c].Metadata[1].watcher = TRUE]
                       /\ watching' = watching \cup {c}
                       /\ pc' = "load"
                       /\ UNCHANGED result
                  ELSE \* fsnotify.NewWatcher() fails
                       /\ result' = ReturnErr(ForeignError("fsnotify: NewWatcher"))
                       /\ pc' = "done"
                       /\ UNCHANGED <<heap, watching>>
         ELSE /\ pc' = "load"
              /\ UNCHANGED <<heap, watching, result>>
    /\ UNCHANGED <<arg, options, config, config0, i, c, found, applied, fileReads>>
    /\ UNCHANGED <<readError, walks>>
    /\ UNCHANGED others

\* ------------------------------------------------------------------ the file
\* lines 244-250, over the file names used here
configType(file) ==
    CASE file = "config.yaml" -> "yaml"
      [] file = "app.json" -> "json"
      [] OTHER -> ""

\* lines 303-328, for a mapping whose logger and console sections are well formed
unmarshalLoad(v) == [v EXCEPT !.Logger = <<FileSection>>, !.Console = <<FileSection>>]

\* What the file says about each top-level field: nothing ("absent"), null, or a
\* value of the field's type.  The decoders reach named exported fields only, and
\* a null does something to a pointer only.
FileContents(cfg) ==
    { content \in [1..Len(cfg) -> {"absent", "null", "value"}] :
        \A k \in 1..Len(cfg) :
          /\ (~cfg[k].exported \/ cfg[k].anonymous) => content[k] = "absent"
          /\ cfg[k].type.kind # "ptr" => content[k] # "null" }

\* yaml.Unmarshal / json.Unmarshal on one field: a null sets a pointer to nil, a
\* value allocates a nil pointer and decodes into what it points to; a
\* Configuration decodes itself (UnmarshalYAML / UnmarshalJSON, lines 287-302)
decodeField(f, h, what) ==
    CASE what = "absent" -> [field |-> f, heap |-> h]
      [] what = "null" -> [field |-> [f EXCEPT !.ptr = NIL], heap |-> h]
      [] what = "value" ->
           CASE f.type.kind = "string" -> [field |-> [f EXCEPT !.str = "from file"], heap |-> h]
             [] f.type.kind = "struct" ->
                  [field |-> [f EXCEPT !.obj = <<unmarshalLoad(@[1])>>], heap |-> h]
             [] f.type.kind = "ptr" ->
                  LET addr == IF f.ptr = NIL THEN Len(h) + 1 ELSE f.ptr
                      h1 == IF f.ptr = NIL THEN Append(h, ZeroConfiguration) ELSE h
                  IN [field |-> [f EXCEPT !.ptr = addr],
                      heap |-> IF f.type = configurationTypePtr
                                 THEN [h1 EXCEPT ![addr] = unmarshalLoad(@)]
                                 ELSE h1]

RECURSIVE decodeFields(_, _, _, _)
decodeFields(cfg, h, content, k) ==
    IF k > Len(cfg) THEN [config |-> cfg, heap |-> h]
    ELSE LET r == decodeField(cfg[k], h, content[k])
         IN decodeFields([cfg EXCEPT ![k] = r.field], r.heap, content, k + 1)

\* lines 271-274: what os.ReadFile's error becomes
NoSuchFile == "open: no such file"
fileReadErrorAsUnmarshal(err) == InvalidInitConfigError(ErrUnmarshalCoreConfig, err, NoType)

fileReadError(err) == InvalidInitConfigError(ErrFileReadCoreConfig, err, NoType)

\* lines 86-95 with unmarshalConfigFile, lines 269-286
unmarshalConfigFile ==
    /\ pc = "load"
    /\ LET m == heap[c].Metadata[1]
       IN IF m.load /\ m.configFile # ""
            THEN /\ fileReads' = fileReads + 1
                 /\ \E readable \in BOOLEAN :
                      IF ~readable
                        THEN \* os.ReadFile fails
                             /\ readError' = <<NoSuchFile>>
                             /\ result' = ReturnErr(fileReadError(NoSuchFile))
                             /\ pc' = "done"
                             /\ UNCHANGED <<config, heap, found>>
                        ELSE IF configType(m.configFile) \in {"json", "yaml", "yml"}
                          THEN \/ \* the content does not decode (what a decoder wrote
                                  \* before it failed is not modelled)
                                  /\ UNCHANGED readError
                                  /\ result' = ReturnErr(InvalidInitConfigError(
                                                   ErrUnmarshalCoreConfig, "cannot unmarshal", NoType))
                                  /\ pc' = "done"
                                  /\ UNCHANGED <<config, heap, found>>
                               \/ \E content \in FileContents(config) :
                                    LET r == decodeFields(config, heap, content, 1)
                                    IN /\ UNCHANGED readError
                                       /\ config' = r.config
                                       /\ heap' = r.heap
                                       /\ found' = TRUE
                                       /\ pc' = "after"
                                       /\ UNCHANGED result
                          ELSE /\ found' = TRUE
                               /\ pc' = "after"
                               /\ UNCHANGED <<config, heap, readError, result>>
            ELSE /\ found' = TRUE
                 /\ pc' = "after"
                 /\ UNCHANGED <<config, heap, fileReads, readError, result>>
    /\ UNCHANGED <<arg, options, config0, i, c, applied, watching, walks>>
    /\ UNCHANGED others

\* ------------------------------------------------------------------ the walk
\* walkStructure over a Configuration: configurationData is embedded and not
\* exported (skipped); Metadata, Logger and Console are exported pointers, a nil
\* one is allocated, and what they point to has unexported fields only
walkConfiguration(v) ==
    [v EXCEPT !.Metadata = IF @ = <<>> THEN <<ZeroMetadata>> ELSE @,
              !.Logger = IF @ = <<>> THEN <<ZeroSection>> ELSE @,
              !.Console = IF @ = <<>> THEN <<ZeroSection>> ELSE @]

\* lines 123-151: the loop body of walkStructure on one top-level field
walkField(f, h) ==
    IF ~f.exported /\ ~CanConvert(f.type, configurationTypePtr)
      THEN [field |-> f, heap |-> h]
    ELSE CASE f.type.kind = "struct" ->
                [field |-> [f EXCEPT !.obj = <<walkConfiguration(@[1])>>], heap |-> h]
           [] f.type.kind = "ptr" ->
                LET addr == IF f.ptr = NIL THEN Len(h) + 1 ELSE f.ptr
                    h1 == IF f.ptr = NIL THEN Append(h, ZeroConfiguration) ELSE h
                IN [field |-> [f EXCEPT !.ptr = addr],
                    heap |-> [h1 EXCEPT ![addr] = walkConfiguration(@)]]
           [] OTHER -> \* a leaf: processDefault and processEnvVar do nothing
                [field |-> f, heap |-> h]

\* lines 114-154, from field k on
RECURSIVE walkStructure(_, _, _)
walkStructure(cfg, h, k) ==
    IF k > Len(cfg) THEN [config |-> cfg, heap |-> h]
    ELSE LET r == walkField(cfg[k], h)
         IN walkStructure([cfg EXCEPT ![k] = r.field], r.heap, k + 1)

\* line 102: no anchor was found
missingCoreNever(f) == FALSE

missingCore(f) == ~f

\* lines 102-111: after the loop
InitConfigReturn ==
    /\ pc = "after"
    /\ pc' = "done"
    /\ IF missingCore(found)
         THEN /\ result' = ReturnErr(InvalidInitConfigError(ErrMissingCoreConfig, "", NoType))
              /\ UNCHANGED <<config, heap, walks>>
         ELSE IF c = NIL
           THEN \* c.Metadata of a nil c
                /\ result' = Panic
                /\ UNCHANGED <<config, heap, walks>>
           ELSE IF heap[c].Metadata[1].load
             THEN LET r == walkStructure(config, heap, 1)
                  IN /\ config' = r.config
                     /\ heap' = r.heap
                     /\ walks' = walks + 1
                     /\ result' = ReturnNil
             ELSE /\ result' = ReturnNil
                  /\ UNCHANGED <<config, heap, walks>>
    /\ UNCHANGED <<arg, options, config0, i, c, found, applied, watching, fileReads,
                   readError>>
    /\ UNCHANGED others

Next ==
    \/ InitConfig
    \/ InitConfigField
    \/ setMetadataDefaults
    \/ newConfiguration
    \/ newConfigurationOption
    \/ newConfigurationWatch
    \/ unmarshalConfigFile
    \/ InitConfigReturn

Spec == Init /\ [][Next]_vars

\* ================================================================== unmarshalLoad
\* ------------------------------------------------------------------ decoded values
\* An interface{} value as the decoders make it: its dynamic type and what it
\* holds.  A float64 is held as its whole part and its first decimal.
Value(type, str, bool, n, frac) ==
    [type |-> type, s |-> str, b |-> bool, n |-> n, frac |-> frac]
StringValue(str) == Value("string", str, FALSE, 0, 0)
BoolValue(bool) == Value("bool", "", bool, 0, 0)
IntValue(n) == Value("int", "", FALSE, n, 0)
FloatValue(n, frac) == Value("float64", "", FALSE, n, frac)

\* a value of the top-level mapping: a map[string]interface{} or something else
Map(m) == [isMap |-> TRUE, m |-> m]
NotMap == [isMap |-> FALSE, m |-> <<>>]

\* the mappings over some of the keys, each key with one of the values V[key]
Mappings(keys, V) ==
    UNION { { f \in [D -> UNION {V[k] : k \in D}] : \A k \in D : f[k] \in V[k] } :
            D \in SUBSET keys }

\* what a file may say under logger, under console and under another key
LoggerValues ==
    [key \in {"level", "colorized"} |->
        CASE key = "level" -> {StringValue("debug"), IntValue(5)}
          [] key = "colorized" -> {BoolValue(TRUE), StringValue("yes")}]
ConsoleValues ==
    [key \in {"width", "height"} |->
        CASE key = "width" -> {IntValue(50), FloatValue(50, 0), FloatValue(50, 5), StringValue("wide")}
          [] key = "height" -> {IntValue(10), StringValue("tall")}]
ThemeValues == [key \in {"name"} |-> {StringValue("dark")}]
TopValues ==
    [key \in {"logger", "console", "theme"} |->
        CASE key = "logger" -> {NotMap} \cup {Map(m) : m \in Mappings({"level", "colorized"}, LoggerValues)}
          [] key = "console" -> {NotMap} \cup {Map(m) : m \in Mappings({"width", "height"}, ConsoleValues)}
          [] key = "theme" -> {NotMap} \cup {Map(m) : m \in Mappings({"name"}, ThemeValues)}]
DecodedMappings == Mappings({"logger", "console", "theme"}, TopValues)

\* ------------------------------------------------------------------ conversions
\* src/unnamed/part_000: the converted value and the error, if any
Converted(type, str, bool, n, e) == [type |-> type, s |-> str, b |-> bool, n |-> n, err |-> e]
InvalidDataType(key) == <<"invalid data type - " \o key \o " != int">>

toIntNoFloat(key, value) ==
    IF value.type = "int" THEN Converted("int", "", FALSE, value.n, <<>>)
    ELSE Converted("int", "", FALSE, 0, InvalidDataType(key))

toInt(key, value) ==
    IF value.type = "int" THEN Converted("int", "", FALSE, value.n, <<>>)
    ELSE IF value.type = "float64" THEN Converted("int", "", FALSE, value.n, <<>>)
    ELSE Converted("int", "", FALSE, 0, InvalidDataType(key))

toBool(key, value) ==
    IF value.type = "bool" THEN Converted("bool", "", value.b, 0, <<>>)
    ELSE Converted("bool", "", FALSE, 0, InvalidDataType(key))

toString(key, value) ==
    IF value.type = "string" THEN Converted("string", value.s, FALSE, 0, <<>>)
    ELSE Converted("string", "", FALSE, 0, InvalidDataType(key))

\* ------------------------------------------------------------------ sections
ErrLoggerUnmarshalType == "logger error - invalid type"
ErrConsoleUnmarshalType == "console error - invalid type"
\* fmt.Errorf("%w: %s", sentinel, err)
Errorf(sentinel, e) ==
    [class |-> "wrapError", Code |-> "", err |-> sentinel \o ": " \o e, Type |-> NoType]
\* InvalidInitConfigError{Code, err}, returned by value
InvalidInitConfigErrorValue(code, e) ==
    [class |-> "InvalidInitConfigError value", Code |-> code, err |-> e, Type |-> NoType]

\* &LoggerConfiguration{...} and &ConsoleConfiguration{...}: the embedded data
\* pointer is <<>> when nil
LoggerConfiguration(data) == [loggerConfigurationData |-> data]
ConsoleConfiguration(data) == [consoleConfigurationData |-> data]
loggerConfigurationData(level, colorized) == [level |-> level, colorized |-> colorized]
consoleConfigurationData(width, height) == [width |-> width, height |-> height]

\* what a section constructor returns: the section (<<>> for nil) and the error
Constructed(section, e) == [section |-> section, err |-> e]

\* part_003, lines 85-104.  The range over the section visits its keys in an
\* order the runtime picks and returns at the first value of a wrong type: with
\* several such values any of their keys may be the one the error names.
newLoggerConfiguration(m) ==
    LET keys == DOMAIN m
        level == IF "level" \in keys THEN toString("level", m["level"])
                 ELSE Converted("string", "", FALSE, 0, <<>>)
        colorized == IF "colorized" \in keys THEN toBool("colorized", m["colorized"])
                     ELSE Converted("bool", "", FALSE, 0, <<>>)
        errors == level.err \o colorized.err
    IN IF errors = <<>>
         THEN {Constructed(<<LoggerConfiguration(
                               <<loggerConfigurationData(level.s, colorized.b)>>)>>, <<>>)}
         ELSE {Constructed(<<>>, <<Errorf(ErrLoggerUnmarshalType, errors[k])>>) :
                 k \in 1..Len(errors)}

\* part_002, lines 203-222
newConsoleConfiguration(m) ==
    LET keys == DOMAIN m
        width == IF "width" \in keys THEN toInt("width", m["width"])
                 ELSE Converted("int", "", FALSE, 0, <<>>)
        height == IF "height" \in keys THEN toInt("height", m["height"])
                  ELSE Converted("int", "", FALSE, 0, <<>>)
        errors == width.err \o height.err
    IN IF errors = <<>>
         THEN {Constructed(<<ConsoleConfiguration(
                               <<consoleConfigurationData(width.n, height.n)>>)>>, <<>>)}
         ELSE {Constructed(<<>>, <<Errorf(ErrConsoleUnmarshalType, errors[k])>>) :
                 k \in 1..Len(errors)}

\* ------------------------------------------------------------------ the receiver
\* the Logger and Console pointers of a Configuration (<<>> when nil)
Sections(logger, console) == [Logger |-> logger, Console |-> console]
\* &Configuration{} as InitConfig makes it, and a Configuration a caller filled
NewCore == Sections(<<>>, <<>>)
FilledCore ==
    Sections(<<LoggerConfiguration(<<loggerConfigurationData("info", FALSE)>>)>>,
             <<ConsoleConfiguration(<<consoleConfigurationData(80, 24)>>)>>)

\* One turn of the range loop of unmarshalLoad, lines 305-326, on one key: the
\* ways it can end, each with the sections, the local err, and what it returns
\* when it returns from inside the loop.
Turn(rcv, e, returned) == [core |-> rcv, err |-> e, returned |-> returned]
NotAMap(key) ==
    InvalidInitConfigErrorValue(ErrUnmarshalLoggerData, key \o " != map[string]interface{}")

unmarshalLoadCaseStrict(key, value, rcv, e) ==
    CASE key = "logger" ->
           IF value.isMap
             THEN {Turn([rcv EXCEPT !.Logger = r.section], r.err, <<>>) :
                     r \in newLoggerConfiguration(value.m)}
             ELSE {Turn(rcv, e, <<NotAMap(key)>>)}
      [] key = "console" ->
           IF value.isMap
             THEN {Turn([rcv EXCEPT !.Console = r.section], r.err, <<>>) :
                     r \in newConsoleConfiguration(value.m)}
             ELSE {Turn(rcv, e, <<NotAMap(key)>>)}
      [] OTHER -> {Turn(rcv, e, <<NotAMap(key)>>)}

unmarshalLoadCase(key, value, rcv, e) ==
    CASE key = "logger" ->
           IF value.isMap
             THEN {Turn([rcv EXCEPT !.Logger = r.section], r.err, <<>>) :
                     r \in newLoggerConfiguration(value.m)}
             ELSE {Turn(rcv, e, <<NotAMap(key)>>)}
      [] key = "console" ->
           IF value.isMap
             THEN {Turn([rcv EXCEPT !.Console = r.section], r.err, <<>>) :
                     r \in newConsoleConfiguration(value.m)}
             ELSE {Turn(rcv, e, <<NotAMap(key)>>)}
      [] OTHER -> {Turn(rcv, e, <<>>)}

\* the keys the range loop has still to visit
Visited == {visited[k] : k \in 1..Len(visited)}
Remaining == DOMAIN values \ Visited

\* lines 287-304: UnmarshalJSON / UnmarshalYAML has decoded the mapping and
\* calls unmarshalLoad
UnmarshalCore ==
    /\ loadPc = "call"
    /\ loadErr' = <<>>
    /\ visited' = <<>>
    /\ loadPc' = "range"
    /\ UNCHANGED <<values, core, loadResult>>
    /\ UNCHANGED loadOthers

\* lines 305-326: one turn of the loop, on a key the runtime picks
unmarshalLoadRange ==
    /\ loadPc = "range"
    /\ \E key \in Remaining :
         /\ visited' = Append(visited, key)
         /\ \E t \in unmarshalLoadCase(key, values[key], core, loadErr) :
              /\ core' = t.core
              /\ loadErr' = t.err
              /\ IF t.returned # <<>>
                   THEN /\ loadResult' = ReturnErr(t.returned[1])
                        /\ loadPc' = "returned"
                   ELSE UNCHANGED <<loadResult, loadPc>>
    /\ UNCHANGED values
    /\ UNCHANGED loadOthers

\* line 327: return err
unmarshalLoadReturn ==
    /\ loadPc = "range"
    /\ Remaining = {}
    /\ loadResult' = IF loadErr = <<>> THEN ReturnNil ELSE ReturnErr(loadErr[1])
    /\ loadPc' = "returned"
    /\ UNCHANGED <<values, visited, core, loadErr>>
    /\ UNCHANGED loadOthers

\* walkStructure on a Configuration, lines 123-143: a nil Logger or Console is
\* allocated (its embedded data pointer is not exported and stays nil), and
\* nothing of a section that is there is written
walkSections(rcv) ==
    [rcv EXCEPT !.Logger = IF @ = <<>> THEN <<LoggerConfiguration(<<>>)>> ELSE @,
              !.Console = IF @ = <<>> THEN <<ConsoleConfiguration(<<>>)>> ELSE @]

\* lines 88-107: a decoding that failed ends InitConfig, and after one that
\* succeeded InitConfig walks the structure, the Core Configuration with it
InitConfigAfterLoad ==
    /\ loadPc = "returned"
    /\ core' = IF loadResult = ReturnNil THEN walkSections(core) ELSE core
    /\ loadPc' = "done"
    /\ UNCHANGED <<values, visited, loadErr, loadResult>>
    /\ UNCHANGED loadOthers

\* InitConfig is not running
InitConfigIdle ==
    /\ arg = Argument(NoType, TRUE, "")
    /\ options = <<>>
    /\ config = <<>>
    /\ config0 = <<>>
    /\ heap = <<>>
    /\ pc = ""
    /\ i = 1
    /\ c = NIL
    /\ found = FALSE
    /\ applied = 0
    /\ watching = {}
    /\ fileReads = 0
    /\ readError = <<>>
    /\ walks = 0
    /\ result = Running

LoadInit ==
    /\ values \in DecodedMappings
    /\ visited = <<>>
    /\ core \in {NewCore, FilledCore}
    /\ loadErr = <<>>
    /\ loadPc = "call"
    /\ loadResult = Running
    /\ InitConfigIdle
    /\ WalkIdle
    /\ WatchIdle
    /\ TerminalIdle

LoadNext ==
    \/ UnmarshalCore
    \/ unmarshalLoadRange
    \/ unmarshalLoadReturn
    \/ InitConfigAfterLoad

LoadSpec == LoadInit /\ [][LoadNext]_vars

\* ================================================================== nested structures
\* ------------------------------------------------------------------ types
\* a field declaration: reflect.StructField with Name, IsExported() and Type
Decl(name, exported, type) == [name |-> name, exported |-> exported, type |-> type]
BoolType == [kind |-> "bool", base |-> "bool"]
MapType == [kind |-> "map", base |-> "map[string][]clif.ConfigurationNotifyFunc"]

\* The fields of the struct types, in declaration order: WalkerC, WalkerB and
\* WalkerA of the walker test (WalkerA with one of its leaves, WalkerB with an
\* unexported pointer `cache *WalkerC` in the place of its leaves), and the
\* types of the package.
TypeFields(t) ==
    CASE t = "clif.WalkerC" ->
           << Decl("internal", FALSE, StringType), Decl("External", TRUE, StringType) >>
      [] t = "clif.WalkerB" ->
           << Decl("cache", FALSE, PtrType("clif.WalkerC")),
              Decl("WalkerC", TRUE, StructType("clif.WalkerC")),
              Decl("WalkerCPtr", TRUE, PtrType("clif.WalkerC")) >>
      [] t = "clif.WalkerA" ->
           << Decl("internal", FALSE, StringType),
              Decl("External", TRUE, StringType),
              Decl("WalkerB", TRUE, StructType("clif.WalkerB")),
              Decl("WalkerBPtr", TRUE, PtrType("clif.WalkerB")),
              Decl("Core", TRUE, configurationTypePtr) >>
      [] t = "clif.Configuration" ->
           << Decl("configurationData", FALSE, PtrType("clif.configurationData")),
              Decl("Metadata", TRUE, PtrType("clif.configurationMetadata")),
              Decl("Logger", TRUE, PtrType("clif.LoggerConfiguration")),
              Decl("Console", TRUE, PtrType("clif.ConsoleConfiguration")) >>
      [] t = "clif.configurationData" ->
           << Decl("notifyFuncs", FALSE, MapType) >>
      [] t = "clif.configurationMetadata" ->
           << Decl("configFile", FALSE, StringType), Decl("load", FALSE, BoolType) >>
      [] t = "clif.LoggerConfiguration" ->
           << Decl("loggerConfigurationData", FALSE, PtrType("clif.loggerConfigurationData")) >>
      [] t = "clif.loggerConfigurationData" ->
           << Decl("level", FALSE, StringType), Decl("colorized", FALSE, BoolType) >>
      [] t = "clif.ConsoleConfiguration" ->
           << Decl("consoleConfigurationData", FALSE, PtrType("clif.consoleConfigurationData")) >>
      [] t = "clif.consoleConfigurationData" ->
           << Decl("width", FALSE, StringType), Decl("height", FALSE, StringType) >>
NumField(t) == Len(TypeFields(t))
IsLeaf(type) == type.kind \notin {"struct", "ptr"}

\* ------------------------------------------------------------------ values
\* The value of a field: a leaf holds s (where its value came from: "" is the
\* zero value), a pointer holds p (an address of objects, or NIL), a struct
\* holds f (the values of its fields).
FieldValue(str, ptr, fields) == [s |-> str, p |-> ptr, f |-> fields]
\* an object on the heap: reflect.New(t) and what it points to
Object(t, fields) == [type |-> t, fields |-> fields]

\* the zero value of a struct type
RECURSIVE Zero(_)
Zero(t) ==
    [k \in 1..NumField(t) |->
       FieldValue("", NIL, IF TypeFields(t)[k].type.kind = "struct"
                             THEN Zero(TypeFields(t)[k].type.base) ELSE <<>>)]

\* the structure and the objects, as the operators below hand them on
Graph(v, h) == [value |-> v, heap |-> h]

\* ------------------------------------------------------------------ the file
\* What the file says about a field: nothing, null, or a value, which for a
\* struct or a pointer to one is a mapping that says something about each field.
Absent == [what |-> "absent", f |-> <<>>]
Null == [what |-> "null", f |-> <<>>]
Scalar == [what |-> "value", f |-> <<>>]
Mapping(fields) == [what |-> "value", f |-> fields]

\* every sequence that takes its k-th element from S[k]
RECURSIVE Products(_, _)
Products(S, n) ==
    IF n = 0 THEN {<<>>}
    ELSE {Append(q, x) : q \in Products(S, n - 1), x \in S[n]}

\* The mappings a file can hold for a struct type.  The decoders reach exported
\* fields only; a Configuration decodes itself from its mapping (LoadSpec), here
\* a mapping with well-formed logger and console sections.
RECURSIVE Contents(_)
FieldContents(decl) ==
    IF ~decl.exported THEN {Absent}
    ELSE CASE decl.type = configurationTypePtr -> {Absent, Null, Mapping(<<>>)}
           [] decl.type.kind = "ptr" ->
                {Absent, Null} \cup {Mapping(m) : m \in Contents(decl.type.base)}
           [] decl.type.kind = "struct" ->
                {Absent} \cup {Mapping(m) : m \in Contents(decl.type.base)}
           [] OTHER -> {Absent, Scalar}
Contents(t) ==
    Products([k \in 1..NumField(t) |-> FieldContents(TypeFields(t)[k])], NumField(t))

\* ------------------------------------------------------------------ decoding
\* Configuration.unmarshalLoad on the Configuration at addr, for a mapping with
\* well-formed logger and console sections: both sections are made anew, each
\* with its data (part_003 line 86, part_002 line 204)
unmarshalSections(h, addr) ==
    LET n == Len(h)
        h1 == h \o << Object("clif.loggerConfigurationData",
                             <<FieldValue("file", NIL, <<>>), FieldValue("file", NIL, <<>>)>>),
                      Object("clif.LoggerConfiguration", <<FieldValue("", n + 1, <<>>)>>),
                      Object("clif.consoleConfigurationData",
                             <<FieldValue("file", NIL, <<>>), FieldValue("file", NIL, <<>>)>>),
                      Object("clif.ConsoleConfiguration", <<FieldValue("", n + 3, <<>>)>>) >>
    IN [h1 EXCEPT ![addr].fields[3].p = n + 2, ![addr].fields[4].p = n + 4]

\* yaml.Unmarshal / json.Unmarshal into the fields k.. of a struct of type t: a
\* field the file does not name, or one that is not exported, keeps its value;
\* a null sets a pointer to nil; a mapping is decoded into the struct, or into
\* what the pointer points to, which is allocated when the pointer is nil
RECURSIVE decodeStruct(_, _, _, _, _)
decodeStruct(t, v, h, content, k) ==
    IF k > NumField(t) THEN Graph(v, h)
    ELSE LET decl == TypeFields(t)[k]
             says == content[k]
         IN IF ~decl.exported \/ says.what = "absent"
              THEN decodeStruct(t, v, h, content, k + 1)
            ELSE IF says.what = "null"
              THEN decodeStruct(t, [v EXCEPT ![k].p = NIL], h, content, k + 1)
            ELSE CASE decl.type.kind = "struct" ->
                        LET r == decodeStruct(decl.type.base, v[k].f, h, says.f, 1)
                        IN decodeStruct(t, [v EXCEPT ![k].f = r.value], r.heap, content, k + 1)
                   [] decl.type.kind = "ptr" ->
                        LET fresh == v[k].p = NIL
                            addr == IF fresh THEN Len(h) + 1 ELSE v[k].p
                            h1 == IF fresh
                                    THEN Append(h, Object(decl.type.base, Zero(decl.type.base)))
                                    ELSE h
                            h2 == IF decl.type = configurationTypePtr
                                    THEN unmarshalSections(h1, addr)
                                    ELSE LET r == decodeStruct(decl.type.base, h1[addr].fields,
                                                               h1, says.f, 1)
                                         IN [r.heap EXCEPT ![addr].fields = r.value]
                        IN decodeStruct(t, [v EXCEPT ![k].p = addr], h2, content, k + 1)
                   [] OTHER ->
                        decodeStruct(t, [v EXCEPT ![k].s = "file"], h, content, k + 1)

\* ------------------------------------------------------------------ the walk
\* lines 156-162: the two providers InitConfig passes write nothing
processDefault(fv) == fv
processEnvVar(fv) == fv

\* line 138: fv.IsNil()
IsNilAlways(ptr) == TRUE

IsNil(ptr) == ptr = NIL

\* lines 125-128: the field is walked (an unexported field only when it is
\* convertible to *Configuration)
WalkedEvery(decl) == TRUE

WalkedNoPointer(decl) ==
    /\ decl.exported \/ CanConvert(decl.type, configurationTypePtr)
    /\ decl.type.kind # "ptr"

Walked(decl) == decl.exported \/ CanConvert(decl.type, configurationTypePtr)

\* lines 114-154: walkStructure on the fields k.. of a struct of type t
RECURSIVE walkLevel(_, _, _, _)
walkLevel(t, v, h, k) ==
    IF k > NumField(t) THEN Graph(v, h)
    ELSE LET decl == TypeFields(t)[k]
         IN IF ~Walked(decl) THEN walkLevel(t, v, h, k + 1)
            ELSE CASE decl.type.kind = "struct" ->
                        \* a copy is walked and set back
                        LET r == walkLevel(decl.type.base, v[k].f, h, 1)
                        IN walkLevel(t, [v EXCEPT ![k].f = r.value], r.heap, k + 1)
                   [] decl.type.kind = "ptr" ->
                        LET fresh == IsNil(v[k].p)
                            addr == IF fresh THEN Len(h) + 1 ELSE v[k].p
                            h1 == IF fresh
                                    THEN Append(h, Object(decl.type.base, Zero(decl.type.base)))
                                    ELSE h
                            r == walkLevel(decl.type.base, h1[addr].fields, h1, 1)
                        IN walkLevel(t, [v EXCEPT ![k].p = addr],
                                     [r.heap EXCEPT ![addr].fields = r.value], k + 1)
                   [] OTHER ->
                        walkLevel(t, [v EXCEPT ![k] = processEnvVar(processDefault(@))],
                                  h, k + 1)

\* ------------------------------------------------------------------ InitConfig
\* The caller's structure when InitConfig comes to line 86: a WalkerA whose Core
\* is the Core Configuration InitConfig made (object 1, with its registry and
\* its Metadata, objects 2 and 3), and whose other pointers are as the caller
\* set them: WalkerBPtr nil, or a WalkerB (object 4) with WalkerCPtr nil or
\* set (object 5).
CoreObjects ==
    << Object("clif.Configuration",
              <<FieldValue("", 2, <<>>), FieldValue("", 3, <<>>),
                FieldValue("", NIL, <<>>), FieldValue("", NIL, <<>>)>>),
       Object("clif.configurationData", <<FieldValue("", NIL, <<>>)>>),
       Object("clif.configurationMetadata",
              <<FieldValue("config.yaml", NIL, <<>>), FieldValue("", NIL, <<>>)>>) >>
AnchoredWalkerA == [Zero("clif.WalkerA") EXCEPT ![5].p = 1]
CallerGraphs ==
    { Graph(AnchoredWalkerA, CoreObjects),
      Graph([AnchoredWalkerA EXCEPT ![4].p = 4],
            Append(CoreObjects, Object("clif.WalkerB", Zero("clif.WalkerB")))),
      Graph([AnchoredWalkerA EXCEPT ![4].p = 4],
            CoreObjects \o
              << Object("clif.WalkerB", [Zero("clif.WalkerB") EXCEPT ![3].p = 5]),
                 Object("clif.WalkerC", Zero("clif.WalkerC")) >>) }
\* the leaves the environment may have a value for: WalkerA.External and
\* WalkerA.WalkerBPtr.WalkerCPtr.External, by their field numbers
EnvLeaves == {<<2>>, <<4, 3, 2>>}

WalkInit ==
    /\ \E g \in CallerGraphs : root = g.value /\ objects = g.heap
    /\ loading \in BOOLEAN
    /\ fileSays \in (IF loading THEN Contents("clif.WalkerA") ELSE {Zero("clif.WalkerA")})
    /\ environment \in (IF loading THEN {{}, EnvLeaves} ELSE {{}})
    /\ walkPc = "load"
    /\ firstWalk = <<>>
    /\ ProvidedIdle
    /\ InitConfigIdle
    /\ LoadIdle
    /\ WatchIdle
    /\ TerminalIdle

\* lines 86-95: with load set, the file is read and decoded into the structure
LoadStructure ==
    /\ walkPc = "load"
    /\ IF loading
         THEN LET r == decodeStruct("clif.WalkerA", root, objects, fileSays, 1)
              IN root' = r.value /\ objects' = r.heap
         ELSE UNCHANGED <<root, objects>>
    /\ walkPc' = "walk"
    /\ UNCHANGED <<fileSays, environment, loading, firstWalk, providedVars>>
    /\ UNCHANGED walkOthers

\* lines 106-111: with load set, the structure is walked; InitConfig returns nil
WalkStructure ==
    /\ walkPc = "walk"
    /\ IF loading
         THEN LET r == walkLevel("clif.WalkerA", root, objects, 1)
              IN /\ root' = r.value
                 /\ objects' = r.heap
                 /\ firstWalk' = <<Graph(r.value, r.heap)>>
                 /\ walkPc' = "walked"
         ELSE /\ walkPc' = "returned"
              /\ UNCHANGED <<root, objects, firstWalk>>
    /\ UNCHANGED <<fileSays, environment, loading, providedVars>>
    /\ UNCHANGED walkOthers

\* walkStructure is run once more over the structure, with the same providers
WalkAgain ==
    /\ walkPc = "walked"
    /\ LET r == walkLevel("clif.WalkerA", root, objects, 1)
       IN root' = r.value /\ objects' = r.heap
    /\ walkPc' = "again"
    /\ UNCHANGED <<fileSays, environment, loading, firstWalk, providedVars>>
    /\ UNCHANGED walkOthers

WalkNext ==
    \/ LoadStructure
    \/ WalkStructure
    \/ WalkAgain

WalkSpec == WalkInit /\ [][WalkNext]_vars

\* ================================================================== providers
\* walkStructure (configuration.go 114-154) with the providers its caller hands
\* it (fs ...processFunc): each provider is applied to every leaf the walk
\* comes to, in the order given, and may write the leaf or return an error.

\* the longest list of providers a call is given
MaxProviders == 2

\* A provider: the value it writes into a leaf ("" when it writes nothing) and
\* the leaves, by the field numbers that lead to them, it returns an error at.
Provider(mark, fails) == [mark |-> mark, fails |-> fails]
\* the error the j-th provider returns at a leaf
ProviderError(j, leaf) == [provider |-> j, leaf |-> leaf]
\* what a walk hands back: the fields, the objects, err and the providers applied
Walk(v, h, err, log) == [value |-> v, heap |-> h, err |-> err, log |-> log]

\* line 122: the loop goes on while err == nil
NeverFailed(err) == TRUE

Continues(err) == err = <<>>

\* lines 145-150: the providers j.. are applied to the leaf fv, each seeing what
\* the ones before it wrote, up to the first that returns an error
RECURSIVE applyProviders(_, _, _, _, _)
applyProviders(fv, leaf, fs, j, log) ==
    IF j > Len(fs) THEN Walk(fv, <<>>, <<>>, log)
    ELSE LET f == fs[j]
             log1 == Append(log, [leaf |-> leaf, provider |-> j])
         IN IF leaf \in f.fails
              THEN Walk(fv, <<>>, <<ProviderError(j, leaf)>>, log1)
              ELSE applyProviders(IF f.mark = "" THEN fv ELSE [fv EXCEPT !.s = f.mark],
                                  leaf, fs, j + 1, log1)

\* lines 121-153: the loop of walkStructure over the fields k.. of a struct of
\* type t that the field numbers of `node` lead to
RECURSIVE walkFields(_, _, _, _, _, _, _)
walkFields(t, v, h, k, node, fs, log) ==
    IF k > NumField(t) THEN Walk(v, h, <<>>, log)
    ELSE LET decl == TypeFields(t)[k]
             field == Append(node, k)
         IN IF ~Walked(decl) THEN walkFields(t, v, h, k + 1, node, fs, log)
            ELSE LET r == CASE decl.type.kind = "struct" ->
                                 \* a copy is walked and set back, whatever err is
                                 LET sub == walkFields(decl.type.base, v[k].f, h, 1, field, fs, log)
                                 IN Walk([v EXCEPT ![k].f = sub.value], sub.heap, sub.err, sub.log)
                            [] decl.type.kind = "ptr" ->
                                 LET fresh == IsNil(v[k].p)
                                     addr == IF fresh THEN Len(h) + 1 ELSE v[k].p
                                     h1 == IF fresh
                                             THEN Append(h, Object(decl.type.base,
                                                                   Zero(decl.type.base)))
                                             ELSE h
                                     sub == walkFields(decl.type.base, h1[addr].fields, h1, 1,
                                                     field, fs, log)
                                 IN Walk([v EXCEPT ![k].p = addr],
                                         [sub.heap EXCEPT ![addr].fields = sub.value], sub.err, sub.log)
                            [] OTHER ->
                                 LET a == applyProviders(v[k], field, fs, 1, log)
                                 IN Walk([v EXCEPT ![k] = a.value], h, a.err, a.log)
                 IN IF Continues(r.err)
                      THEN walkFields(t, r.value, r.heap, k + 1, node, fs, r.log)
                      ELSE r

\* the providers a caller may give: each writes a value of its own or nothing,
\* and fails at no leaf or at one leaf of the structure
WalkerLeaves ==
    {<<2>>, <<3, 2, 2>>, <<3, 3, 2>>, <<4, 2, 2>>, <<4, 3, 2>>}
Providers ==
    {Provider(mark, fails) : mark \in {"", "default", "env"},
                             fails \in {{}} \cup {{leaf} : leaf \in WalkerLeaves}}
ProviderLists == SeqsUpTo(Providers, MaxProviders)

\* The structures a caller may hand to walkStructure: those of CallerGraphs with
\* the unexported leaves set by the caller, and one whose WalkerB keeps a
\* WalkerC of its own behind its unexported pointer `cache`.
CallerSet == "caller"
WithInternals(g) ==
    Graph([g.value EXCEPT ![1].s = CallerSet, ![3].f[2].f[1].s = CallerSet], g.heap)
CachedGraph ==
    Graph([AnchoredWalkerA EXCEPT ![4].p = 4],
          CoreObjects \o
            << Object("clif.WalkerB", [Zero("clif.WalkerB") EXCEPT ![1].p = 5]),
               Object("clif.WalkerC", <<FieldValue(CallerSet, NIL, <<>>),
                                        FieldValue(CallerSet, NIL, <<>>)>>) >>)
ProvidedGraphs == {WithInternals(g) : g \in CallerGraphs \cup {CachedGraph}}

ProvidedInit ==
    /\ \E g \in ProvidedGraphs : root = g.value /\ objects = g.heap /\ began = <<g>>
    /\ given \in ProviderLists
    /\ provided = <<>>
    /\ walkErr = <<>>
    /\ walkPc = "call"
    /\ fileSays = <<>>
    /\ environment = {}
    /\ loading = TRUE
    /\ firstWalk = <<>>
    /\ InitConfigIdle
    /\ LoadIdle
    /\ WatchIdle
    /\ TerminalIdle

\* line 107: the outermost call of walkStructure, on the caller's structure
walkOutermost ==
    /\ walkPc = "call"
    /\ LET r == walkFields("clif.WalkerA", root, objects, 1, <<>>, given, <<>>)
       IN /\ root' = r.value
          /\ objects' = r.heap
          /\ provided' = r.log
          /\ walkErr' = r.err
    /\ walkPc' = "called"
    /\ UNCHANGED <<fileSays, environment, loading, firstWalk, given, began>>
    /\ UNCHANGED walkOthers

\* lines 107-110: the caller returns the error of the walk, or nil
walkReturned ==
    /\ walkPc = "called"
    /\ walkPc' = (IF walkErr # <<>> THEN "failed" ELSE "returned")
    /\ UNCHANGED <<root, objects, fileSays, environment, loading, firstWalk, providedVars>>
    /\ UNCHANGED walkOthers

ProvidedNext ==
    \/ walkOutermost
    \/ walkReturned

ProvidedSpec == ProvidedInit /\ [][ProvidedNext]_vars

\* ================================================================== watch
\* The watch task of one Core Configuration (configuration.go 205-243) beside
\* the goroutines of the application that register callbacks (330-340), the
\* callbacks themselves, which may register callbacks too, the caller that
\* cancels the context and waits on the wait group, and the fsnotify watcher.
\* The code adds no path to the watcher; what the library sends on its Events
\* and Errors channels is left open.  It closes them in Close only.

\* no call of AddNotifyOnChange in progress
NoCall == [setting |-> "", notifyFunc |-> 0]
\* no setting is being visited
NotPolled == [setting |-> "", value |-> ""]

\* notifyFuncs, ok := c.notifyFuncs[setting], an empty slice when !ok
Registered(setting) ==
    IF setting \in DOMAIN notifyFuncs THEN notifyFuncs[setting] ELSE <<>>

\* the list is replaced by the new callback
AssignedAlone(setting, notifyFunc) ==
    [s \in DOMAIN notifyFuncs \cup {setting} |->
        IF s = setting THEN <<notifyFunc>> ELSE notifyFuncs[s]]

\* c.notifyFuncs[setting] = append(notifyFuncs, notifyFunc)
Assigned(setting, notifyFunc) ==
    [s \in DOMAIN notifyFuncs \cup {setting} |->
        IF s = setting THEN Append(Registered(setting), notifyFunc)
        ELSE notifyFuncs[s]]

\* only the first callback of the setting
CallbacksFirst(setting) == <<Head(notifyFuncs[setting])>>

\* for setting, notifyFuncs := range c.configurationData.notifyFuncs
Callbacks(setting) == notifyFuncs[setting]

\* the callbacks are called with the lock taken by the watch task
callbackLockTaken(holder) == WatchTask

\* the callbacks are called with the lock as it is: checkForEnvChange takes
\* none
callbackLock(holder) == holder

\* the variable is not read
GetenvUnset(setting) == ""

\* value := os.Getenv(setting)
Getenv(setting) == environ[setting]

\* the task has been started and has not returned
WatchRunning == watchPc \notin {"", "exited"}

\* a goroutine is inside the assignment to the map
Assigning == \E g \in Callers : appPc[g] = "assign"

\* defer c.Metadata.wg.Done(), when a wait group is set
wgDone == IF wg.set THEN WaitGroupState(TRUE, wg.count - 1) ELSE wg

WatchInit ==
    /\ InitConfigIdle
    /\ LoadIdle
    /\ WalkIdle
    /\ TerminalIdle
    /\ ctxDone = FALSE
    /\ watchPc = ""
    /\ watcherOpen = FALSE
    /\ ticker = TickerState(FALSE, FALSE)
    /\ channels = ChannelState(FALSE, "", "")
    /\ notifyFuncs = <<>>
    /\ lock = ""
    /\ appPc = [g \in Callers |-> ""]
    /\ adding = [g \in Callers |-> NoCall]
    /\ calls = 0
    /\ acquired = <<>>
    /\ ranged = {}
    /\ calling = <<>>
    /\ polled = NotPolled
    /\ invoked = <<>>
    /\ atTick = <<>>
    /\ environ = [s \in Settings |-> ""]
    /\ wg = WaitGroupState(FALSE, 0)
    /\ waitPc = ""
    /\ fatal = FALSE

\* the same, with or without ConfigurationOptionWaitGroup among the options
WatchLoopInit ==
    /\ InitConfigIdle
    /\ LoadIdle
    /\ WalkIdle
    /\ TerminalIdle
    /\ ctxDone = FALSE
    /\ watchPc = ""
    /\ watcherOpen = FALSE
    /\ ticker = TickerState(FALSE, FALSE)
    /\ channels = ChannelState(FALSE, "", "")
    /\ notifyFuncs = <<>>
    /\ lock = ""
    /\ appPc = [g \in Callers |-> ""]
    /\ adding = [g \in Callers |-> NoCall]
    /\ calls = 0
    /\ acquired = <<>>
    /\ ranged = {}
    /\ calling = <<>>
    /\ polled = NotPolled
    /\ invoked = <<>>
    /\ atTick = <<>>
    /\ environ = [s \in Settings |-> ""]
    /\ wg \in {WaitGroupState(FALSE, 0), WaitGroupState(TRUE, 0)}
    /\ waitPc = ""
    /\ fatal = FALSE

\* newConfiguration: the watcher is created and the task started
goWatch ==
    /\ ~fatal
    /\ watchPc = ""
    /\ watcherOpen' = TRUE
    /\ watchPc' = "start"
    /\ UNCHANGED <<ctxDone, ticker, channels, environ, wg, waitPc, fatal>>
    /\ UNCHANGED <<registryVars, tickVars>>
    /\ UNCHANGED watchOthers

\* watch, up to the select: the task adds itself to the wait group, when one
\* is set, and the ticker is created
watch ==
    /\ ~fatal
    /\ watchPc = "start"
    /\ wg' = IF wg.set THEN WaitGroupState(TRUE, wg.count + 1) ELSE wg
    /\ ticker' = TickerState(TRUE, FALSE)
    /\ watchPc' = "select"
    /\ UNCHANGED <<ctxDone, watcherOpen, channels, environ, waitPc, fatal>>
    /\ UNCHANGED <<registryVars, tickVars>>
    /\ UNCHANGED watchOthers

\* environmentInterval has passed: the running ticker puts a tick in its
\* channel, which holds one
timerFires ==
    /\ ~fatal
    /\ ticker.running
    /\ ~ticker.waiting
    /\ ticker' = TickerState(TRUE, TRUE)
    /\ UNCHANGED <<ctxDone, watchPc, watcherOpen, channels, environ, wg, waitPc,
                   fatal>>
    /\ UNCHANGED <<registryVars, tickVars>>
    /\ UNCHANGED watchOthers

\* the fsnotify watcher has an event or an error to send, one at a time
fsnotifySends ==
    /\ ~fatal
    /\ watcherOpen
    /\ ~channels.closed
    /\ channels.sending = ""
    /\ \E what \in {"event", "error"} : channels' = ChannelState(FALSE, what, "")
    /\ UNCHANGED <<ctxDone, watchPc, watcherOpen, ticker, environ, wg, waitPc,
                   fatal>>
    /\ UNCHANGED <<registryVars, tickVars>>
    /\ UNCHANGED watchOthers

\* watch returns on whatever it receives
watchReceiveReturns(what) ==
    /\ ~fatal
    /\ watchPc = "select"
    /\ channels.closed \/ channels.sending = what
    /\ watchPc' = "exited"
    /\ wg' = wgDone
    /\ channels' = ChannelState(channels.closed, "", what)
    /\ UNCHANGED <<ctxDone, watcherOpen, ticker, environ, waitPc, fatal>>
    /\ UNCHANGED <<registryVars, tickVars>>
    /\ UNCHANGED watchOthers

\* case event, ok := <-Events / case err, ok := <-Errors: watch returns when
\* the channel is closed, and prints what it received and goes on otherwise
watchReceive(what) ==
    /\ ~fatal
    /\ watchPc = "select"
    /\ channels.closed \/ channels.sending = what
    /\ IF channels.closed
         THEN /\ watchPc' = "exited"
              /\ wg' = wgDone
              /\ UNCHANGED channels
         ELSE /\ channels' = ChannelState(FALSE, "", what)
              /\ UNCHANGED <<watchPc, wg>>
    /\ UNCHANGED <<ctxDone, watcherOpen, ticker, environ, waitPc, fatal>>
    /\ UNCHANGED <<registryVars, tickVars>>
    /\ UNCHANGED watchOthers

watchEvent == watchReceive("event")
watchError == watchReceive("error")

\* case <-timer.C: timer.Stop() and the call of checkForEnvChange
watchTimer ==
    /\ ~fatal
    /\ watchPc = "select"
    /\ ticker.waiting
    /\ ticker' = TickerState(FALSE, FALSE)
    /\ ranged' = {}
    /\ calling' = <<>>
    /\ polled' = NotPolled
    /\ invoked' = <<>>
    /\ atTick' = notifyFuncs
    /\ watchPc' = "range"
    /\ UNCHANGED <<ctxDone, watcherOpen, channels, environ, wg, waitPc, fatal>>
    /\ UNCHANGED registryVars
    /\ UNCHANGED watchOthers

\* the runtime finds the map being written while it is iterated:
\* fatal error: concurrent map iteration and map write
Throw ==
    /\ fatal' = TRUE
    /\ UNCHANGED <<ranged, calling, polled, watchPc>>

\* the range reaches the next setting of the map, in no fixed order, and
\* reads its environment variable, or ends, and checkForEnvChange returns: it
\* ends when no setting is left that was in the map when it began, and a
\* setting that came into the map since may be reached or skipped
RangeNext ==
    /\ fatal' = fatal
    /\ \/ /\ DOMAIN atTick \subseteq ranged
          /\ watchPc' = "reset"
          /\ UNCHANGED <<ranged, calling, polled>>
       \/ \E setting \in DOMAIN notifyFuncs \ ranged :
              /\ ranged' = ranged \cup {setting}
              /\ calling' = Callbacks(setting)
              /\ polled' = [setting |-> setting, value |-> Getenv(setting)]
              /\ watchPc' = "call"

\* checkForEnvChange: one step of the range over the map, which takes no
\* lock: with an assignment of another goroutine in progress the read is a
\* data race, and the runtime either detects it or does not
RangeStep ==
    \/ RangeNext
    \/ Assigning /\ Throw

checkForEnvChange ==
    /\ ~fatal
    /\ watchPc = "range"
    /\ RangeStep
    /\ UNCHANGED <<ctxDone, watcherOpen, ticker, channels, environ, wg, waitPc,
                   invoked, atTick>>
    /\ UNCHANGED registryVars
    /\ UNCHANGED watchOthers

\* notifyFunc(setting, value): the callback is entered
notifyFuncCall ==
    /\ ~fatal
    /\ watchPc = "call"
    /\ invoked' = Append(invoked, [setting |-> polled.setting,
                                   notifyFunc |-> Head(calling),
                                   value |-> polled.value])
    /\ lock' = callbackLock(lock)
    /\ watchPc' = "callback"
    /\ UNCHANGED <<ctxDone, watcherOpen, ticker, channels, environ, wg, waitPc,
                   fatal, ranged, calling, polled, atTick>>
    /\ UNCHANGED <<notifyFuncs, appPc, adding, calls, acquired>>
    /\ UNCHANGED watchOthers

\* the callback returns: the next callback of the slice, or the next setting
notifyFuncReturn ==
    /\ ~fatal
    /\ watchPc = "callback"
    /\ appPc[WatchTask] = ""
    /\ calling' = Tail(calling)
    /\ watchPc' = IF Tail(calling) = <<>> THEN "range" ELSE "call"
    /\ UNCHANGED <<ctxDone, watcherOpen, ticker, channels, environ, wg, waitPc,
                   fatal, ranged, polled, invoked, atTick>>
    /\ UNCHANGED registryVars
    /\ UNCHANGED watchOthers

\* timer.Reset(environmentInterval), and back to the select
timerReset ==
    /\ ~fatal
    /\ watchPc = "reset"
    /\ ticker' = TickerState(TRUE, FALSE)
    /\ polled' = NotPolled
    /\ invoked' = <<>>
    /\ atTick' = <<>>
    /\ ranged' = {}
    /\ watchPc' = "select"
    /\ UNCHANGED <<ctxDone, watcherOpen, channels, environ, wg, waitPc, fatal,
                   calling>>
    /\ UNCHANGED registryVars
    /\ UNCHANGED watchOthers

\* case <-ctx.Done(): the watcher is closed, its channels with it, and watch
\* returns
watchDone ==
    /\ ~fatal
    /\ watchPc = "select"
    /\ ctxDone
    /\ watcherOpen' = FALSE
    /\ channels' = ChannelState(TRUE, "", channels.received)
    /\ wg' = wgDone
    /\ watchPc' = "exited"
    /\ UNCHANGED <<ctxDone, ticker, environ, waitPc, fatal>>
    /\ UNCHANGED <<registryVars, tickVars>>
    /\ UNCHANGED watchOthers

\* the caller cancels the context
cancel ==
    /\ ~fatal
    /\ ~ctxDone
    /\ ctxDone' = TRUE
    /\ UNCHANGED <<watchPc, watcherOpen, ticker, channels, environ, wg, waitPc,
                   fatal>>
    /\ UNCHANGED <<registryVars, tickVars>>
    /\ UNCHANGED watchOthers

\* the environment variable of the level is set or unset
Setenv ==
    /\ ~fatal
    /\ \E value \in EnvValues :
           /\ value # environ[LevelSetting]
           /\ environ' = [environ EXCEPT ![LevelSetting] = value]
    /\ UNCHANGED <<ctxDone, watchPc, watcherOpen, ticker, channels, wg, waitPc,
                   fatal>>
    /\ UNCHANGED <<registryVars, tickVars>>
    /\ UNCHANGED watchOthers

\* InitConfig has returned and the caller waits on the wait group it
\* supplied: Wait returns with the counter at zero
Wait ==
    /\ ~fatal
    /\ wg.set
    /\ watchPc # ""
    /\ waitPc = ""
    /\ wg.count = 0
    /\ waitPc' = "waited"
    /\ UNCHANGED <<ctxDone, watchPc, watcherOpen, ticker, channels, environ, wg,
                   fatal>>
    /\ UNCHANGED <<registryVars, tickVars>>
    /\ UNCHANGED watchOthers

\* AddNotifyOnChange is called on the Core Configuration InitConfig filled
\* in, by a goroutine of the application or by a callback the tick is in
AddNotifyOnChange(g) ==
    /\ ~fatal
    /\ watchPc # ""
    /\ g = WatchTask => watchPc = "callback"
    /\ appPc[g] = ""
    /\ calls < MaxRegistrations
    /\ calls' = calls + 1
    /\ \E setting \in Settings :
           adding' = [adding EXCEPT
                         ![g] = [setting |-> setting, notifyFunc |-> calls + 1]]
    /\ appPc' = [appPc EXCEPT ![g] = "lock"]
    /\ UNCHANGED <<notifyFuncs, lock, acquired>>
    /\ UNCHANGED <<nonRegistryVars, tickVars>>
    /\ UNCHANGED watchOthers

\* c.lock.Lock()
Lock(g) ==
    /\ ~fatal
    /\ appPc[g] = "lock"
    /\ lock = ""
    /\ lock' = g
    /\ acquired' = Append(acquired, [setting |-> adding[g].setting,
                                      notifyFunc |-> adding[g].notifyFunc,
                                      by |-> g])
    /\ appPc' = [appPc EXCEPT ![g] = "locked"]
    /\ UNCHANGED <<notifyFuncs, adding, calls>>
    /\ UNCHANGED <<nonRegistryVars, tickVars>>
    /\ UNCHANGED watchOthers

\* the assignment to the map begins
mapassign(g) ==
    /\ ~fatal
    /\ appPc[g] = "locked"
    /\ appPc' = [appPc EXCEPT ![g] = "assign"]
    /\ UNCHANGED <<notifyFuncs, lock, adding, calls, acquired>>
    /\ UNCHANGED <<nonRegistryVars, tickVars>>
    /\ UNCHANGED watchOthers

\* the assignment to the map is done
mapassigned(g) ==
    /\ ~fatal
    /\ appPc[g] = "assign"
    /\ notifyFuncs' = Assigned(adding[g].setting, adding[g].notifyFunc)
    /\ appPc' = [appPc EXCEPT ![g] = "assigned"]
    /\ UNCHANGED <<lock, adding, calls, acquired>>
    /\ UNCHANGED <<nonRegistryVars, tickVars>>
    /\ UNCHANGED watchOthers

\* defer c.lock.Unlock(), and the return
Unlock(g) ==
    /\ ~fatal
    /\ appPc[g] = "assigned"
    /\ lock' = ""
    /\ adding' = [adding EXCEPT ![g] = NoCall]
    /\ appPc' = [appPc EXCEPT ![g] = ""]
    /\ UNCHANGED <<notifyFuncs, calls, acquired>>
    /\ UNCHANGED <<nonRegistryVars, tickVars>>
    /\ UNCHANGED watchOthers

\* the watch task with callbacks registered and called: the fsnotify watcher,
\* which watches no path, sends nothing, and no wait group is set
WatchNext ==
    \/ goWatch
    \/ watch
    \/ timerFires
    \/ watchTimer
    \/ checkForEnvChange
    \/ notifyFuncCall
    \/ notifyFuncReturn
    \/ timerReset
    \/ watchDone
    \/ cancel
    \/ Setenv
    \/ \E g \in Callers : AddNotifyOnChange(g)
    \/ \E g \in Callers : Lock(g)
    \/ \E g \in Callers : mapassign(g)
    \/ \E g \in Callers : mapassigned(g)
    \/ \E g \in Callers : Unlock(g)

WatchSpec == WatchInit /\ [][WatchNext]_vars

\* The scheduler runs every goroutine that can take a step; a select with
\* several ready cases picks one of them at random, so a case that is ready
\* at every visit of the select is taken in the end; a goroutine that waits
\* for the mutex gets it when it is free again and again; every callback
\* returns.  The ticks, the cancellation, the environment and the calls of
\* AddNotifyOnChange are the choices of the environment and of the
\* application.
WatchFairness ==
    /\ WF_vars(goWatch)
    /\ WF_vars(watch)
    /\ WF_vars(watchTimer \/ watchDone)
    /\ SF_vars(watchDone)
    /\ WF_vars(checkForEnvChange)
    /\ WF_vars(notifyFuncCall)
    /\ WF_vars(notifyFuncReturn)
    /\ WF_vars(timerReset)
    /\ \A g \in Callers :
           /\ SF_vars(Lock(g))
           /\ WF_vars(mapassign(g))
           /\ WF_vars(mapassigned(g))
           /\ WF_vars(Unlock(g))

WatchFairSpec == WatchSpec /\ WatchFairness

\* the loop of the watch task with whatever the fsnotify watcher may send and
\* with the caller's Wait, no callback being registered
WatchLoopNext ==
    \/ goWatch
    \/ watch
    \/ timerFires
    \/ fsnotifySends
    \/ watchEvent
    \/ watchError
    \/ watchTimer
    \/ checkForEnvChange
    \/ timerReset
    \/ watchDone
    \/ cancel
    \/ Wait

WatchLoopSpec == WatchLoopInit /\ [][WatchLoopNext]_vars

\* ================================================================== console
\* NewConsole, StopConsole, autoStop and monitorSize (console.go 59-147,
\* 177-189).  A
\* console is named by its place in consoles; NewConsole runs under the
\* package mutex from its first statement to its return.

\* the goroutines that call NewConsole
ConsoleCallers == {"main", "worker"}
\* the contexts they pass
Contexts == {"ctx1", "ctx2"}
\* NewConsole returned an error and no console
NoConsole == [console |-> NIL, err |-> TRUE]
\* NewConsole returned a console
ReturnedConsole(console) == [console |-> console, err |-> FALSE]
\* a console: raw mode entered by startConsole and not restored by
\* stopConsole, its context, where its autoStop goroutine and its monitorSize
\* goroutine are ("" for a goroutine that was not started), how many times
\* stopConsole has run on it, whether a call of StopConsole on it has returned,
\* and whether its resize callback has been called after that
ConsoleState(raw, ctx, auto, monitor, stops) ==
    [raw |-> raw, ctx |-> ctx, autoStop |-> auto, monitor |-> monitor, stops |-> stops,
     stopped |-> FALSE, late |-> FALSE]
\* the calls that pass ConsoleOptionResizeNotify: those with the first context
ResizeNotify(ctx) == ctx = "ctx1"
\* what term.GetSize tells the monitor at a tick
Sizes == {"error", "same", "changed"}

\* the consoles that are started
Started == {k \in DOMAIN consoles : consoles[k].raw}

\* stopConsole, on the consoles: the stop-notify function is called and the
\* terminal is restored
stopConsole(k) == [consoles EXCEPT ![k].raw = FALSE, ![k].stops = @ + 1]

\* lines 83-87: the monitor is started when there is a resize callback
monitorStarted(resizeFunc) == IF resizeFunc THEN "select" ELSE ""

ConsoleInit ==
    /\ InitConfigIdle
    /\ LoadIdle
    /\ WalkIdle
    /\ WatchIdle
    /\ KeyboardIdle
    /\ LoggerIdle
    /\ singletonConsole = NIL
    /\ synchronize = ""
    /\ consoles = <<>>
    /\ newPc = [g \in ConsoleCallers |-> ""]
    /\ newCtx = [g \in ConsoleCallers |-> ""]
    /\ got = [g \in ConsoleCallers |-> NoConsole]
    /\ cancelled = {}

\* NewConsole(ctx, options...) is called
NewConsole(g) ==
    /\ newPc[g] = ""
    /\ \E ctx \in Contexts : newCtx' = [newCtx EXCEPT ![g] = ctx]
    /\ newPc' = [newPc EXCEPT ![g] = "lock"]
    /\ UNCHANGED <<singletonConsole, synchronize, consoles, got, cancelled>>
    /\ UNCHANGED consoleOthers

\* synchronize.Lock()
NewConsoleLock(g) ==
    /\ newPc[g] = "lock"
    /\ synchronize = ""
    /\ singletonConsole # NIL \/ Len(consoles) < MaxConsoles
    /\ synchronize' = g
    /\ newPc' = [newPc EXCEPT ![g] = "locked"]
    /\ UNCHANGED <<singletonConsole, consoles, newCtx, got, cancelled>>
    /\ UNCHANGED consoleOthers

\* lines 63-92: with no singleton a console is made, its options applied and
\* it is started, which may fail; its autoStop goroutine is started; the size
\* is waited for, and when that fails the console is stopped; the console
\* becomes the singleton.  The singleton is returned.
NewConsoleBody(g) ==
    /\ newPc[g] = "locked"
    /\ IF singletonConsole # NIL
         THEN /\ got' = [got EXCEPT ![g] = ReturnedConsole(singletonConsole)]
              /\ UNCHANGED <<singletonConsole, consoles>>
         ELSE \E outcome \in {"not started", "no size", "started"} :
                CASE outcome = "not started" ->
                       /\ got' = [got EXCEPT ![g] = NoConsole]
                       /\ UNCHANGED <<singletonConsole, consoles>>
                  [] outcome = "no size" ->
                       \* line 79: stopConsole has run once
                       /\ consoles' = Append(consoles,
                                             ConsoleState(FALSE, newCtx[g], "select", "", 1))
                       /\ singletonConsole' = NIL
                       /\ got' = [got EXCEPT ![g] = NoConsole]
                  [] outcome = "started" ->
                       /\ consoles' = Append(consoles,
                                             ConsoleState(TRUE, newCtx[g], "select",
                                                          monitorStarted(ResizeNotify(newCtx[g])), 0))
                       /\ singletonConsole' = Len(consoles) + 1
                       /\ got' = [got EXCEPT ![g] = ReturnedConsole(Len(consoles) + 1)]
    /\ newPc' = [newPc EXCEPT ![g] = "unlock"]
    /\ UNCHANGED <<synchronize, newCtx, cancelled>>
    /\ UNCHANGED consoleOthers

\* defer synchronize.Unlock(), and the return
NewConsoleUnlock(g) ==
    /\ newPc[g] = "unlock"
    /\ synchronize' = ""
    /\ newPc' = [newPc EXCEPT ![g] = ""]
    /\ UNCHANGED <<singletonConsole, consoles, newCtx, got, cancelled>>
    /\ UNCHANGED consoleOthers

\* a context is cancelled
cancelContext ==
    /\ \E ctx \in Contexts \ cancelled : cancelled' = cancelled \cup {ctx}
    /\ UNCHANGED <<singletonConsole, synchronize, consoles, newPc, newCtx, got>>
    /\ UNCHANGED consoleOthers

\* autoStop: case <-ctx.Done(): c.StopConsole(), which takes the mutex, and
\* c.stopCancel(), which cancels a child of the context that is cancelled
\* already
autoStop ==
    /\ synchronize = ""
    /\ \E k \in DOMAIN consoles :
           /\ consoles[k].autoStop = "select"
           /\ consoles[k].ctx \in cancelled
           /\ consoles' = [stopConsole(k) EXCEPT ![k].autoStop = "returned",
                                                 ![k].stopped = TRUE]
    /\ singletonConsole' = NIL
    /\ UNCHANGED <<synchronize, newPc, newCtx, got, cancelled>>
    /\ UNCHANGED consoleOthers

\* StopConsole, called by the application on a console NewConsole returned
StopConsole ==
    /\ synchronize = ""
    /\ \E k \in Started : consoles' = [stopConsole(k) EXCEPT ![k].stopped = TRUE]
    /\ singletonConsole' = NIL
    /\ UNCHANGED <<synchronize, newPc, newCtx, got, cancelled>>
    /\ UNCHANGED consoleOthers

\* lines 133-144: the ticker of monitorSize fires; when term.GetSize gives a
\* size that is not the last one, the resize callback is called
monitorSize ==
    /\ \E k \in DOMAIN consoles, size \in Sizes :
           /\ consoles[k].monitor = "select"
           /\ IF size = "changed"
                THEN consoles' = [consoles EXCEPT ![k].late = @ \/ consoles[k].stopped]
                ELSE UNCHANGED consoles
    /\ UNCHANGED <<singletonConsole, synchronize, newPc, newCtx, got, cancelled>>
    /\ UNCHANGED consoleOthers

\* lines 131-132: case <-ctx.Done() of monitorSize, with ctx or the child
\* context of line 85 cancelled
monitorSizeDone ==
    /\ \E k \in DOMAIN consoles :
           /\ consoles[k].monitor = "select"
           /\ consoles[k].ctx \in cancelled
           /\ consoles' = [consoles EXCEPT ![k].monitor = "returned"]
    /\ UNCHANGED <<singletonConsole, synchronize, newPc, newCtx, got, cancelled>>
    /\ UNCHANGED consoleOthers

ConsoleNext ==
    \/ \E g \in ConsoleCallers : NewConsole(g)
    \/ \E g \in ConsoleCallers : NewConsoleLock(g)
    \/ \E g \in ConsoleCallers : NewConsoleBody(g)
    \/ \E g \in ConsoleCallers : NewConsoleUnlock(g)
    \/ cancelContext
    \/ autoStop
    \/ StopConsole
    \/ monitorSize
    \/ monitorSizeDone

ConsoleSpec == ConsoleInit /\ [][ConsoleNext]_vars

\* ================================================================== keyboard
\* The reader task of a Keyboard (keyboard.go 28-85) and keys.MakeKey
\* (part_004 98-144).  The application sends requests on the request channel
\* and a consumer receives from the keyboard channel; both channels are
\* unbuffered, so a send and its receive are one step.

\* the most true values the application sends
MaxRequests == 3

ModifierNone == 0
ModifierControl == 1
\* Key{code, modifier, name}; a name made by Sprintf is the format with its
\* arguments
Key(code, modifier, name) == [code |-> code, modifier |-> modifier, name |-> name]
Up == Key(0, 38, <<"Cursor Up">>)
Down == Key(0, 40, <<"Cursor Down">>)
Left == Key(0, 37, <<"Cursor Left">>)
Right == Key(0, 39, <<"Cursor Right">>)
newKey(modifier, code) == Key(code, modifier, <<>>)
\* what MakeKey returns: (key, true) or (nil, false)
Made(k) == <<k>>
NotMade == <<>>

\* utf8.DecodeRune on at most two bytes: an ASCII byte, a two-byte encoding,
\* or RuneError
DecodeRune(p) ==
    IF p = <<>> THEN 65533
    ELSE IF p[1] < 128 THEN p[1]
    ELSE IF Len(p) >= 2 /\ p[1] \in 194..223 /\ p[2] \in 128..191
      THEN (p[1] - 192) * 64 + (p[2] - 128)
    ELSE 65533

\* part_004 lines 98-144
MakeKey(input) ==
    LET size == Len(input)
    IN IF size = 3 /\ input[1] = 27 /\ input[2] = 91
         THEN CASE input[3] = 65 -> Made(Up)
                [] input[3] = 66 -> Made(Down)
                [] input[3] = 67 -> Made(Right)
                [] input[3] = 68 -> Made(Left)
                [] OTHER -> NotMade
       ELSE IF size = 1 /\ input[1] < 27
         THEN Made(newKey(ModifierControl, (input[1] + 65 - 1) % 256))
       ELSE IF size = 1 THEN Made(newKey(ModifierNone, input[1]))
       ELSE IF size = 2 /\ input[1] = 27
         THEN Made(newKey(ModifierNone, DecodeRune(Tail(input))))
       ELSE IF size = 2
         THEN IF DecodeRune(input) # 65533
                THEN Made(newKey(ModifierNone, DecodeRune(input)))
                ELSE NotMade
       ELSE IF size = 3 THEN Made(Key(0, 0, <<"%s %s %s", input>>))
       ELSE IF size = 4 THEN Made(Key(0, 0, <<"%d %d %d %d", input>>))
       ELSE IF size = 5 THEN Made(Key(0, 0, <<"%d %d %d %d %d", input>>))
       ELSE NotMade

\* What a read of standard input into five bytes may give: Ctrl+C, a letter,
\* cursor up and left, Home (ESC [ H), Alt+a, a two-byte letter, two bytes
\* that are no UTF-8, three letters, and the four and five bytes of Insert and
\* F5; or an error.
Reads ==
    { <<3>>, <<97>>, <<27, 91, 65>>, <<27, 91, 68>>, <<27, 91, 72>>, <<27, 97>>,
      <<195, 135>>, <<200, 40>>, <<97, 98, 99>>, <<27, 91, 50, 126>>,
      <<27, 91, 49, 53, 126>> }
ReadError == <<>>

\* lines 69-73: stopNotify calls the function when there is one
stopNotifyNever(configured, n) == n

stopNotify(configured, n) == IF configured THEN n + 1 ELSE n

KeyboardInit ==
    /\ kbPc = ""
    /\ kbCtx = FALSE
    /\ stopFunc \in BOOLEAN
    /\ stopCalls = 0
    /\ reqChan = <<>>
    /\ stdin = <<>>
    /\ pressed = NotMade
    /\ accepted = 0
    /\ reads = 0
    /\ sentKeys = 0
    /\ InitConfigIdle
    /\ LoadIdle
    /\ WalkIdle
    /\ WatchIdle
    /\ ConsoleIdle
    /\ LoggerIdle

\* lines 28-42 and 50-56: NewKeyboard makes the channels, applies the options
\* and starts the task, which comes to its select
NewKeyboard ==
    /\ kbPc = ""
    /\ kbPc' = "select"
    /\ UNCHANGED <<kbCtx, stopFunc, stopCalls, reqChan, stdin, pressed, accepted, reads,
                   sentKeys>>
    /\ UNCHANGED keyboardOthers

\* the application sends a value on the request channel, and waits for the
\* task to receive it
request ==
    /\ reqChan = <<>>
    /\ accepted < MaxRequests
    /\ \E more \in BOOLEAN : reqChan' = <<more>>
    /\ UNCHANGED <<kbPc, kbCtx, stopFunc, stopCalls, stdin, pressed, accepted, reads, sentKeys>>
    /\ UNCHANGED keyboardOthers

\* the context is cancelled
cancelKeyboard ==
    /\ ~kbCtx
    /\ kbCtx' = TRUE
    /\ UNCHANGED <<kbPc, stopFunc, stopCalls, reqChan, stdin, pressed, accepted, reads,
                   sentKeys>>
    /\ UNCHANGED keyboardOthers

\* lines 59-61: case <-ctx.Done()
readMonitoredInputDone ==
    /\ kbPc = "select"
    /\ kbCtx
    /\ stopCalls' = stopNotify(stopFunc, stopCalls)
    /\ kbPc' = "returned"
    /\ UNCHANGED <<kbCtx, stopFunc, reqChan, stdin, pressed, accepted, reads, sentKeys>>
    /\ UNCHANGED keyboardOthers

\* lines 62-67: case moreInput = <-k.reqChan
readMonitoredInput ==
    /\ kbPc = "select"
    /\ reqChan # <<>>
    /\ reqChan' = <<>>
    /\ IF reqChan[1]
         THEN /\ accepted' = accepted + 1
              /\ kbPc' = "read"
              /\ UNCHANGED stopCalls
         ELSE /\ stopCalls' = stopNotify(stopFunc, stopCalls)
              /\ kbPc' = "returned"
              /\ UNCHANGED accepted
    /\ UNCHANGED <<kbCtx, stopFunc, stdin, pressed, reads, sentKeys>>
    /\ UNCHANGED keyboardOthers

\* lines 75-84: readInput reads standard input and makes a key of the bytes;
\* with an error, or with no key made, it returns
readInput ==
    /\ kbPc = "read"
    /\ \E input \in Reads \cup {ReadError} :
         /\ stdin' = input
         /\ IF input = ReadError
              THEN /\ pressed' = NotMade
                   /\ kbPc' = "select"
                   /\ UNCHANGED reads
              ELSE /\ pressed' = MakeKey(input)
                   /\ reads' = reads + 1
                   /\ kbPc' = (IF MakeKey(input) # NotMade THEN "send" ELSE "select")
    /\ UNCHANGED <<kbCtx, stopFunc, stopCalls, reqChan, accepted, sentKeys>>
    /\ UNCHANGED keyboardOthers

\* line 83: kbChan <- *key, received by the consumer
sendKey ==
    /\ kbPc = "send"
    /\ sentKeys' = sentKeys + 1
    /\ kbPc' = "select"
    /\ UNCHANGED <<kbCtx, stopFunc, stopCalls, reqChan, stdin, pressed, accepted, reads>>
    /\ UNCHANGED keyboardOthers

KeyboardNext ==
    \/ NewKeyboard
    \/ request
    \/ cancelKeyboard
    \/ readMonitoredInputDone
    \/ readMonitoredInput
    \/ readInput
    \/ sendKey

KeyboardSpec == KeyboardInit /\ [][KeyboardNext]_vars

\* ================================================================== logger
\* NewLogger, the logging methods and History.add (logger.go 30-106).  The
\* goroutines of the application log on the Logger NewLogger returned, whose
\* debug flag nothing sets, and add to a History of their own.

\* line 103: the most messages a History keeps
HistoryMax == 1000
\* the most messages the goroutines add
MaxAdds == 3
\* how many messages were added, one after the other, before they begin
Preloaded == {0, HistoryMax - 1, HistoryMax}

\* the logging methods
Methods == {"Notify", "Info", "Warn", "Error", "Debug", "Trace"}
\* lines 43-47: Trace adds a line only when debug is on
Adds(method, debug) == method # "Trace" \/ debug

\* lines 102-105: the message is appended and, with more than HistoryMax
\* messages, the first is dropped
addKeepsAll(ms, message) == Append(ms, message)

add(ms, message) ==
    IF Len(ms) + 1 > HistoryMax THEN Tail(Append(ms, message)) ELSE Append(ms, message)

\* a goroutine has run into a nil pointer: the process is over
Crashed == \E g \in Goroutines : logPc[g] = "panic"

LoggerInit ==
    /\ history = NIL
    /\ \E m \in Preloaded : messages = [k \in 1..m |-> k]
    /\ appended = messages
    /\ hSync = ""
    /\ logPc = [g \in Goroutines |-> ""]
    /\ logMsg = [g \in Goroutines |-> 0]
    /\ issued = 0
    /\ InitConfigIdle
    /\ LoadIdle
    /\ WalkIdle
    /\ WatchIdle
    /\ ConsoleIdle
    /\ KeyboardIdle

\* lines 38-76: a logging method is called on the Logger of NewLogger (lines
\* 30-34, history nil, debug off); a method that adds a line calls
\* l.history.add, which locks h.sync through the nil pointer
Log(g) ==
    /\ ~Crashed
    /\ logPc[g] = ""
    /\ \E method \in Methods :
         IF ~Adds(method, FALSE) THEN UNCHANGED <<logPc, logMsg, issued>>
         ELSE IF history = NIL
           THEN /\ logPc' = [logPc EXCEPT ![g] = "panic"]
                /\ UNCHANGED <<logMsg, issued>>
         ELSE /\ issued < MaxAdds
              /\ issued' = issued + 1
              /\ logMsg' = [logMsg EXCEPT ![g] = HistoryMax + issued + 1]
              /\ logPc' = [logPc EXCEPT ![g] = "lock"]
    /\ UNCHANGED <<history, messages, hSync, appended>>
    /\ UNCHANGED loggerOthers

\* line 98: add is called on a History, with a message
historyAdd(g) ==
    /\ ~Crashed
    /\ logPc[g] = ""
    /\ issued < MaxAdds
    /\ issued' = issued + 1
    /\ logMsg' = [logMsg EXCEPT ![g] = HistoryMax + issued + 1]
    /\ logPc' = [logPc EXCEPT ![g] = "lock"]
    /\ UNCHANGED <<history, messages, hSync, appended>>
    /\ UNCHANGED loggerOthers

\* line 99: h.sync.Lock()
historyLock(g) ==
    /\ ~Crashed
    /\ logPc[g] = "lock"
    /\ hSync = ""
    /\ hSync' = g
    /\ logPc' = [logPc EXCEPT ![g] = "locked"]
    /\ UNCHANGED <<history, messages, logMsg, issued, appended>>
    /\ UNCHANGED loggerOthers

\* lines 102-105
historyAppend(g) ==
    /\ ~Crashed
    /\ logPc[g] = "locked"
    /\ messages' = add(messages, logMsg[g])
    /\ appended' = Append(appended, logMsg[g])
    /\ logPc' = [logPc EXCEPT ![g] = "unlock"]
    /\ UNCHANGED <<history, hSync, logMsg, issued>>
    /\ UNCHANGED loggerOthers

\* line 100: defer h.sync.Unlock()
historyUnlock(g) ==
    /\ ~Crashed
    /\ logPc[g] = "unlock"
    /\ hSync' = ""
    /\ logPc' = [logPc EXCEPT ![g] = ""]
    /\ UNCHANGED <<history, messages, logMsg, issued, appended>>
    /\ UNCHANGED loggerOthers

LoggerNext ==
    \/ \E g \in Goroutines : Log(g)
    \/ \E g \in Goroutines : historyAdd(g)
    \/ \E g \in Goroutines : historyLock(g)
    \/ \E g \in Goroutines : historyAppend(g)
    \/ \E g \in Goroutines : historyUnlock(g)

LoggerSpec == LoggerInit /\ [][LoggerNext]_vars

\* ================================================================== claims
Done == pc = "done"
Returned(e) == Done /\ result = ReturnErr(e)
ReturnedNil == Done /\ result = ReturnNil
IsSettings == arg = SettingsArgument

\* a field the code takes for a core field: convertible, as reflect decides it,
\* to *Configuration or to Configuration
CoreTyped(f) ==
    CanConvert(f.type, configurationTypePtr) \/ CanConvert(f.type, configurationType)
CoreFields(cfg) == {k \in 1..Len(cfg) : CoreTyped(cfg[k])}
\* the first core field in declaration order (0 when there is none)
FirstCore(cfg) ==
    IF CoreFields(cfg) = {} THEN 0
    ELSE CHOOSE k \in CoreFields(cfg) : \A j \in CoreFields(cfg) : k <= j
\* the fields the code takes for a pointer to Configuration, and the named ones
Pointers(cfg) == {k \in 1..Len(cfg) : CanConvert(cfg[k].type, configurationTypePtr)}
NamedPointers(cfg) == {k \in Pointers(cfg) : ~cfg[k].anonymous}
FirstIn(S) == CHOOSE k \in S : \A j \in S : k <= j
Passed(op) == \E k \in 1..Len(options) : options[k].op = op

MissingCoreConfig == InvalidInitConfigError(ErrMissingCoreConfig, "", NoType)
AnonymousCoreConfig == InvalidInitConfigError(ErrAnonymousCoreConfig, "", NoType)
NonExportedCoreConfig == InvalidInitConfigError(ErrNonExportedCoreConfig, "", NoType)
EmbeddedCoreNotPointer == InvalidInitConfigError("", "", configurationType)

\* C1: for a non-nil pointer to a structure with no top-level field convertible
\* to Configuration or to *Configuration, InitConfig returns MissingCoreConfig
\* (CC01, "... core configuration not present"), whatever the options.
C1_MissingCore ==
    (Done /\ IsSettings /\ CoreFields(config0) = {})
      => /\ result = ReturnErr(MissingCoreConfig)
         /\ result.err[1].Code = "CC01"
         /\ Error(result.err[1]) =
              <<"configuration error - InitConfig(core configuration not present)">>

C1_Witness ==
    /\ Done /\ IsSettings /\ CoreFields(config0) = {}
    /\ Len(config0) = MaxFields /\ Len(options) > 0
    /\ result = ReturnErr(MissingCoreConfig)

\* C2: when the first core field in declaration order is an embedded pointer,
\* InitConfig returns AnonymousCoreConfig (CC02, "... is anonymous").
C2_AnonymousCore ==
    (Done /\ IsSettings /\ FirstCore(config0) # 0
          /\ config0[FirstCore(config0)].type.kind = "ptr"
          /\ config0[FirstCore(config0)].anonymous)
      => /\ result = ReturnErr(AnonymousCoreConfig)
         /\ result.err[1].Code = "CC02"
         /\ Error(result.err[1]) =
              <<"configuration error - InitConfig(core configuration is anonymous)">>

C2_Witness ==
    /\ Done /\ IsSettings /\ FirstCore(config0) = 2
    /\ config0[2].type.kind = "ptr" /\ config0[2].anonymous
    /\ result = ReturnErr(AnonymousCoreConfig)

\* C3: when the first core field in declaration order is a Configuration held
\* by value, embedded or named, InitConfig fails with the error whose message
\* is "... InitConfig(non-pointer of embedded clif.Configuration)".
C3_ValueCore ==
    (Done /\ IsSettings /\ FirstCore(config0) # 0
          /\ config0[FirstCore(config0)].type.kind = "struct")
      => /\ result = ReturnErr(EmbeddedCoreNotPointer)
         /\ Error(result.err[1]) =
              <<"configuration error - InitConfig(non-pointer of embedded ",
                "clif.Configuration", ")">>

C3_Witness ==
    /\ Done /\ IsSettings /\ FirstCore(config0) = 2
    /\ config0[2].type.kind = "struct" /\ ~config0[2].anonymous
    /\ result = ReturnErr(EmbeddedCoreNotPointer)

ClaimedMessage(a) ==
    IF a.type = NoType THEN <<"configuration error - InitConfig(nil)">>
    ELSE IF a.type.kind # "ptr"
      THEN <<"configuration error - InitConfig(non-pointer ", a.type.base, ")">>
      ELSE <<"configuration error - InitConfig(nil ", "*", a.type.base, ")">>

\* C5, as claimed: for a nil argument, a non-pointer value or a nil pointer the
\* message is InitConfig(nil), InitConfig(non-pointer <type>) or
\* InitConfig(nil <type>), and nothing else has happened.
C5_Original ==
    (Done /\ arg \in InvalidArguments)
      => /\ result.status = "returned" /\ Len(result.err) = 1
         /\ result.err[1].class = "InvalidInitConfigError"
         /\ Error(result.err[1]) = ClaimedMessage(arg)
         /\ applied = 0 /\ watching = {} /\ fileReads = 0

\* C5, amended: ... the message is InitConfig(nil), InitConfig(non-pointer
\* <type>) or InitConfig(nil <type>), except that a Configuration passed by
\* value is reported as InitConfig(non-pointer of embedded clif.Configuration);
\* no option has been applied, no watcher started and no file read.
C5_InvalidArgument ==
    (Done /\ arg \in InvalidArguments)
      => /\ result = ReturnErr(InvalidInitConfigError("", "", arg.type))
         /\ Error(result.err[1]) =
              IF arg.type = configurationType
                THEN <<"configuration error - InitConfig(non-pointer of embedded ",
                       "clif.Configuration", ")">>
                ELSE ClaimedMessage(arg)
         /\ applied = 0 /\ watching = {} /\ fileReads = 0
         /\ heap = <<ExistingCore>>

C5_Witness ==
    /\ Done /\ arg.type = configurationTypePtr /\ arg.isNil
    /\ Len(options) = MaxOptions
    /\ Error(result.err[1]) =
         <<"configuration error - InitConfig(nil ", "*", "clif.Configuration", ")">>

\* the anchor InitConfig can accept: the first core field, a named exported pointer
HasAnchor ==
    /\ IsSettings /\ FirstCore(config0) # 0
    /\ config0[FirstCore(config0)].type.kind = "ptr"
    /\ ~config0[FirstCore(config0)].anonymous
    /\ config0[FirstCore(config0)].exported

\* C6, as claimed: whenever InitConfig returns nil for a structure with a named
\* exported pointer anchor, the anchor is non-nil, its Metadata is non-nil and
\* every Metadata value no option overrides has its default.
C6_Original ==
    (ReturnedNil /\ HasAnchor)
      => LET p == config[FirstCore(config0)].ptr
         IN /\ p # NIL
            /\ heap[p].Metadata # <<>>
            /\ LET m == heap[p].Metadata[1]
               IN /\ ~Passed("ConfigFile") => m.configFile = "config.yaml"
                  /\ ~Passed("AppName") => m.appName = Argv0
                  /\ m.homeDir = HomeDir
                  /\ ~Passed("ConfigDir") => m.configDir = Join(HomeDir, "config.yaml")

StructuralErrors ==
    {MissingCoreConfig, AnonymousCoreConfig, NonExportedCoreConfig, EmbeddedCoreNotPointer}

\* C7: whenever InitConfig fails with an anchor-resolution error (missing,
\* anonymous or unexported anchor, core type held by value), every top-level
\* field of the caller's structure has the value it had before the call, and
\* what the fields point to is as it was.
C7_StructuralErrorFrame ==
    (Done /\ IsSettings /\ result.status = "returned" /\ result.err # <<>>
          /\ result.err[1] \in StructuralErrors)
      => /\ config = config0
         /\ heap[ExistingAddr] = ExistingCore

C7_Witness ==
    /\ Returned(NonExportedCoreConfig) /\ IsSettings
    /\ Len(config0) = 2 /\ config0[1].str = "name"
    /\ config0[2].ptr = NIL /\ config[2].ptr = NIL
    /\ c # NIL

\* C8, as claimed, in what it says at the least: a structure with a top-level
\* field of the bare Configuration type is never accepted by InitConfig, at
\* whatever position the field is declared.
C8_Original ==
    (Done /\ IsSettings /\ \E k \in 1..Len(config0) : config0[k].type = configurationType)
      => result # ReturnNil

\* C9, as claimed: an anchor that already points to a Core Configuration
\* points to the same instance after a successful InitConfig, with the
\* callbacks registered on it.
C9_Original ==
    (ReturnedNil /\ HasAnchor /\ config0[FirstCore(config0)].ptr = ExistingAddr)
      => /\ config[FirstCore(config0)].ptr = ExistingAddr
         /\ heap[config[FirstCore(config0)].ptr].data = ExistingCore.data

\* the named fields of type *Configuration, and the second of them
Candidates(cfg) ==
    {k \in 1..Len(cfg) : cfg[k].type = configurationTypePtr /\ ~cfg[k].anonymous}
SecondIn(S) == FirstIn(S \ {FirstIn(S)})

Metadata == heap[c].Metadata[1]
\* the Core Configurations that hold a file-watch handle
Watchers ==
    {a \in 1..Len(heap) : heap[a].Metadata # <<>> /\ heap[a].Metadata[1].watcher}

\* C16: when loading is enabled, the configuration file path is not empty and
\* os.ReadFile fails on it, InitConfig returns the error with code CC04 that
\* wraps the I/O error, and walkStructure has not run and never runs.
C16_FileReadError ==
    readError # <<>>
      => /\ Metadata.load /\ Metadata.configFile # ""
         /\ result = ReturnErr(InvalidInitConfigError(ErrFileReadCoreConfig, readError[1], NoType))
         /\ result.err[1].Code = "CC04"
         /\ Done
         /\ walks = 0

C16_Witness ==
    /\ readError = <<NoSuchFile>> /\ Done /\ IsSettings
    /\ fileReads > 0 /\ walks = 0
    /\ Passed("ConfigFile") /\ Metadata.configFile = "app.json"

\* C18, as claimed: while InitConfig is still to decode the file or to walk the
\* structure, the watch task of its Core Configuration has not been started.
C18_Original ==
    pc \in {"load", "after"} => c \notin watching

\* C19: no watch task has been started while the options are not all applied;
\* a Core Configuration whose watch task has been started has its watch flag
\* set and holds a file-watch handle; and with configurationOptionNoWatch among
\* the options, no Core Configuration ever gets a file-watch handle or a task.
C19_WatcherStart ==
    /\ (pc \in {"call", "scan", "defaults", "newConfiguration"}
          \/ (pc = "options" /\ applied < Len(options))) => watching = {}
    /\ \A a \in watching :
         /\ a = c /\ applied = Len(options)
         /\ heap[a].Metadata[1].watch /\ heap[a].Metadata[1].watcher
    /\ Watchers \subseteq watching
    /\ Passed("NoWatch") => watching = {} /\ Watchers = {}

C19_Witness ==
    /\ ReturnedNil /\ IsSettings /\ Passed("NoWatch")
    /\ options[1].op = "NoWatch" /\ Len(options) = MaxOptions
    /\ ~Metadata.watch /\ watching = {}

\* ------------------------------------------------------------------ unmarshalLoad
Loaded == loadPc \in {"returned", "done"}
Present(key) == key \in DOMAIN values /\ values[key].isMap
Has(key, name) == Present(key) /\ name \in DOMAIN values[key].m
\* a whole number, as YAML (int) or JSON (float64) decodes it
WholeNumber(v) == v.type = "int" \/ (v.type = "float64" /\ v.frac = 0)
\* the values of the section are of the types the settings have
CorrectlyTyped(key) ==
    /\ Has(key, "level") => values[key].m["level"].type = "string"
    /\ Has(key, "colorized") => values[key].m["colorized"].type = "bool"
    /\ Has(key, "width") => WholeNumber(values[key].m["width"])
    /\ Has(key, "height") => WholeNumber(values[key].m["height"])
\* a value of the section is one its converter rejects
WronglyTyped(key) ==
    \/ Has(key, "level") /\ values[key].m["level"].type # "string"
    \/ Has(key, "colorized") /\ values[key].m["colorized"].type # "bool"
    \/ Has(key, "width") /\ values[key].m["width"].type \notin {"int", "float64"}
    \/ Has(key, "height") /\ values[key].m["height"].type \notin {"int", "float64"}

\* C13: when the logger and console sections of the file are mappings whose
\* values are correctly typed, unmarshalLoad returns nil, in whatever order it
\* visits the keys and whatever other keys there are, and from then on, the
\* walk included, the Logger's level and colorized and the Console's width and
\* height are the file's values for the keys the file has.
C13_FileValues ==
    (Loaded /\ Present("logger") /\ Present("console")
            /\ CorrectlyTyped("logger") /\ CorrectlyTyped("console"))
      => /\ loadResult = ReturnNil
         /\ core.Logger # <<>> /\ core.Logger[1].loggerConfigurationData # <<>>
         /\ core.Console # <<>> /\ core.Console[1].consoleConfigurationData # <<>>
         /\ LET logger == core.Logger[1].loggerConfigurationData[1]
                console == core.Console[1].consoleConfigurationData[1]
            IN /\ Has("logger", "level") => logger.level = values["logger"].m["level"].s
               /\ Has("logger", "colorized") =>
                    logger.colorized = values["logger"].m["colorized"].b
               /\ Has("console", "width") => console.width = values["console"].m["width"].n
               /\ Has("console", "height") => console.height = values["console"].m["height"].n

C13_Witness ==
    /\ loadPc = "done" /\ loadResult = ReturnNil
    /\ DOMAIN values = {"logger", "console", "theme"}
    /\ Present("logger") /\ Present("console")
    /\ DOMAIN values["logger"].m = {"level", "colorized"}
    /\ DOMAIN values["console"].m = {"width", "height"}
    /\ values["console"].m["width"] = FloatValue(50, 0)
    /\ core.Logger = <<LoggerConfiguration(<<loggerConfigurationData("debug", TRUE)>>)>>
    /\ core.Console = <<ConsoleConfiguration(<<consoleConfigurationData(50, 10)>>)>>

\* C14: a turn of unmarshalLoad's loop on a top-level key other than logger and
\* console changes neither section nor the error unmarshalLoad will return,
\* and does not end the loop.
C14_OtherKeys ==
    [][(/\ loadPc = "range"
        /\ Len(visited') = Len(visited) + 1
        /\ visited'[Len(visited')] \notin {"logger", "console"})
         => /\ core' = core
            /\ loadErr' = loadErr
            /\ loadResult' = loadResult
            /\ loadPc' = "range"]_vars

C14_Witness ==
    /\ loadPc = "range" /\ visited = <<"logger", "theme">>
    /\ DOMAIN values = {"logger", "console", "theme"}
    /\ ~values["theme"].isMap
    /\ loadErr # <<>> /\ core.Logger = <<>> /\ core.Console # <<>>

\* C15, as claimed: whenever a value inside a logger or console section is of
\* a type its converter rejects, unmarshalLoad returns a non-nil error,
\* whatever sections there are and in whatever order the keys are visited.
C15_Original ==
    (Loaded /\ (WronglyTyped("logger") \/ WronglyTyped("console")))
      => loadResult.err # <<>>

\* ------------------------------------------------------------------ nested structures
\* InitConfig has returned nil with loading enabled
WalkedOnce == walkPc = "walked"

\* every exported pointer field of the struct, and of what is reached from it
\* through exported fields, is not nil
RECURSIVE Populated(_, _, _)
Populated(t, v, h) ==
    \A k \in 1..NumField(t) :
      LET decl == TypeFields(t)[k]
      IN decl.exported =>
           CASE decl.type.kind = "struct" -> Populated(decl.type.base, v[k].f, h)
             [] decl.type.kind = "ptr" ->
                  /\ v[k].p # NIL
                  /\ Populated(decl.type.base, h[v[k].p].fields, h)
             [] OTHER -> TRUE

\* C11: after InitConfig has returned nil with loading enabled, every exported
\* pointer to a struct in the caller's structure, at every depth reached
\* through exported fields (by value or through pointers), is not nil,
\* whatever the file said about it (nothing, null, a mapping).
C11_PointersPopulated ==
    (walkPc \in {"walked", "again"} /\ loading) => Populated("clif.WalkerA", root, objects)

C11_Witness ==
    /\ WalkedOnce /\ loading
    /\ fileSays[4] = Null /\ fileSays[3].what = "value" /\ fileSays[3].f[3] = Null
    /\ root[3].f[3].p # NIL
    /\ root[4].p # NIL /\ objects[root[4].p].fields[3].p # NIL
    /\ objects[root[4].p].fields[1].p = NIL

\* the exported leaves of a struct type, each by the field numbers that lead to it
RECURSIVE LeafPaths(_)
LeafPaths(t) ==
    UNION { LET decl == TypeFields(t)[k]
            IN IF ~decl.exported THEN {}
               ELSE IF IsLeaf(decl.type) THEN {<<k>>}
               ELSE {<<k>> \o q : q \in LeafPaths(decl.type.base)} :
            k \in 1..NumField(t) }
\* the value of the leaf a path leads to
RECURSIVE LeafAt(_, _, _, _)
LeafAt(t, v, h, path) ==
    LET decl == TypeFields(t)[path[1]]
        fv == v[path[1]]
    IN IF Len(path) = 1 THEN fv.s
       ELSE IF decl.type.kind = "struct" THEN LeafAt(decl.type.base, fv.f, h, Tail(path))
       ELSE IF fv.p = NIL THEN "nil pointer"
       ELSE LeafAt(decl.type.base, h[fv.p].fields, h, Tail(path))
\* the file has a value for the leaf a path leads to
RECURSIVE Supplied(_, _)
Supplied(content, path) ==
    /\ content[path[1]].what = "value"
    /\ Len(path) = 1 \/ Supplied(content[path[1]].f, Tail(path))
\* the value of the highest-precedence source that has one (the default of a
\* leaf being its zero value)
Expected(path) ==
    IF path \in environment THEN "environment"
    ELSE IF Supplied(fileSays, path) THEN "file"
    ELSE ""

\* C12, as claimed: after InitConfig has returned nil with loading enabled,
\* every leaf holds the environment's value when the environment has one for
\* it, otherwise the file's value when the file has one, otherwise its default.
C12_Original ==
    WalkedOnce =>
      \A path \in LeafPaths("clif.WalkerA") :
        LeafAt("clif.WalkerA", root, objects, path) = Expected(path)

\* C17: when walkStructure is run a second time over the structure it has
\* populated, the structure and every object reached from it are as the first
\* run left them: no leaf has another value, no pointer points elsewhere and
\* nothing has been allocated.
C17_Idempotent ==
    walkPc = "again" => firstWalk = <<Graph(root, objects)>>

C17_Witness ==
    /\ walkPc = "again" /\ firstWalk = <<Graph(root, objects)>>
    /\ Len(objects) > Len(CoreObjects) + 2
    /\ fileSays[2] = Scalar /\ root[2].s = "file"
    /\ fileSays[4] = Absent /\ root[4].p # NIL /\ objects[root[4].p].fields[3].p # NIL

\* C20 (as stated): a watch task that is running with the context cancelled
\* leads to the task having returned with its watcher closed, and a task that
\* has returned is never running again.
C20_Original ==
    /\ (ctxDone /\ WatchRunning) ~> (watchPc = "exited" /\ ~watcherOpen)
    /\ [][watchPc = "exited" => watchPc' = "exited"]_vars

\* ------------------------------------------------------------------ the tick
\* p is the beginning of q
IsPrefix(p, q) == Len(p) <= Len(q) /\ \A k \in 1..Len(p) : p[k] = q[k]
\* nothing is twice in q
NoRepeat(q) == \A j, k \in 1..Len(q) : q[j] = q[k] => j = k
\* the calls made in this tick for a setting, in order
CallsFor(setting) ==
    LET ForSetting(e) == e.setting = setting
    IN SelectSeq(invoked, ForSetting)
\* the callbacks they called
InvokedFor(setting) ==
    [k \in 1..Len(CallsFor(setting)) |-> CallsFor(setting)[k].notifyFunc]
\* checkForEnvChange has returned
TickDone == watchPc = "reset"

Completed ==
    IF \E g \in Callers : appPc[g] \in {"locked", "assign"}
      THEN SubSeq(acquired, 1, Len(acquired) - 1)
      ELSE acquired
\* the callbacks they registered for a setting, in the order of the lock
CompletedFor(setting) ==
    LET ForSetting(e) == e.setting = setting
        done == SelectSeq(Completed, ForSetting)
    IN [k \in 1..Len(done) |-> done[k].notifyFunc]

\* C22: at every moment the list of each setting holds exactly the callbacks
\* of the calls that took the lock and made their assignment, one entry a
\* call, in the order the calls took the lock; a setting never leaves the
\* registry and no list loses or reorders an entry.
C22_Registrations ==
    /\ [](\A s \in Settings : Registered(s) = CompletedFor(s))
    /\ [][\A s \in DOMAIN notifyFuncs :
              /\ s \in DOMAIN notifyFuncs'
              /\ IsPrefix(notifyFuncs[s], notifyFuncs'[s])]_vars

\* two goroutines of the application have registered for the same setting,
\* the one that called second having taken the lock first
C22_Witness ==
    /\ \E s \in Settings : Registered(s) = <<2, 1>>
    /\ \A k \in 1..Len(acquired) : acquired[k].by \in Goroutines
    /\ \A g \in Callers : appPc[g] = ""

\* C23 (as stated): no step of the range of checkForEnvChange over the
\* registry is taken while a registration is inside its assignment to the map.
C23_Original == [][checkForEnvChange => ~Assigning]_vars

\* C24: while a callback runs the lock is not held by the watch task, unless
\* the callback is inside its own call of AddNotifyOnChange; and whenever the
\* callback's call waits for the lock, the lock is free or held by a
\* goroutine of the application that is on its way to Unlock and can take its
\* next step.
C24_NoDeadlock ==
    /\ watchPc = "callback" /\ appPc[WatchTask] \in {"", "lock"} => lock # WatchTask
    /\ appPc[WatchTask] = "lock" =>
           \/ lock = "" /\ ENABLED Lock(WatchTask)
           \/ /\ lock \in Goroutines
              /\ appPc[lock] \in {"locked", "assign", "assigned"}
              /\ ENABLED (mapassign(lock) \/ mapassigned(lock) \/ Unlock(lock))

\* a tick has ended in which a callback registered a callback
C24_Witness ==
    /\ TickDone
    /\ \E k \in 1..Len(acquired) :
           /\ acquired[k].by = WatchTask
           /\ \E s \in DOMAIN notifyFuncs :
                  /\ \E j \in 1..Len(notifyFuncs[s]) :
                         notifyFuncs[s][j] = acquired[k].notifyFunc
                  /\ s \in DOMAIN atTick =>
                         \A j \in 1..Len(atTick[s]) :
                             atTick[s][j] # acquired[k].notifyFunc

\* C25 (as stated): with a wait group set, a Wait that returned after
\* InitConfig returned has found the watch task returned.
C25_Original == waitPc = "waited" => watchPc = "exited"

\* C26 (as stated): no callback is called for a setting that is not marked
\* monitored.
C26_Original == \A k \in 1..Len(invoked) : invoked[k].setting \in Monitored

\* C30: the watch task stops running only with the context cancelled or with
\* a channel of the fsnotify watcher closed; a step that receives an event,
\* an error or a tick from an open channel leaves it running.
C30_KeepsRunning ==
    /\ [][WatchRunning /\ ~WatchRunning' => ctxDone \/ channels.closed]_vars
    /\ [][~channels.closed /\ (watchEvent \/ watchError \/ watchTimer)
             => WatchRunning']_vars

\* the task has received an error and is back at the select, the context not
\* cancelled
C30_Witness ==
    /\ watchPc = "select"
    /\ channels.received = "error"
    /\ ~ctxDone

\* ------------------------------------------------------------------ the console
\* C27 (as stated): while the singleton exists no console but the singleton
\* is started, and a call of NewConsole that returned a console while the
\* singleton exists returned the singleton.
C27_Original ==
    /\ singletonConsole # NIL => Started \subseteq {singletonConsole}
    /\ \A g \in ConsoleCallers :
           newPc[g] = "unlock" /\ ~got[g].err /\ singletonConsole # NIL
               => got[g].console = singletonConsole

\* ------------------------------------------------------------------ providers
\* the leaves of WalkerA in the order a walk comes to them
WalkOrder == << <<2>>, <<3, 2, 2>>, <<3, 3, 2>>, <<4, 2, 2>>, <<4, 3, 2>> >>
\* every provider applied to every leaf: leaf by leaf, the providers in the
\* order given
EveryLeaf ==
    [m \in 1..(Len(WalkOrder) * Len(given)) |->
       [leaf |-> WalkOrder[((m - 1) \div Len(given)) + 1],
        provider |-> ((m - 1) % Len(given)) + 1]]
\* the applications that return an error
Failing == {m \in DOMAIN EveryLeaf : EveryLeaf[m].leaf \in given[EveryLeaf[m].provider].fails}
FirstFailing == CHOOSE m \in Failing : \A o \in Failing : m <= o
\* what the providers applied before the first error wrote last into a leaf
\* ("" when none of them wrote into it)
WrittenBy(log, leaf) ==
    LET writes == {m \in DOMAIN log : /\ log[m].leaf = leaf
                                      /\ given[log[m].provider].mark # ""
                                      /\ leaf \notin given[log[m].provider].fails}
    IN IF writes = {} THEN ""
       ELSE given[log[CHOOSE m \in writes : \A o \in writes : o <= m].provider].mark
WalkOver == walkPc \in {"called", "failed", "returned"}

\* C28: the first error a provider returns on a leaf stops the walk: the
\* providers applied are those up to and including the one that failed, none
\* is applied to a later leaf of that struct or of a struct around it; the
\* outermost call returns that error and so does its caller; and every leaf
\* holds what was last written into it before the failure, every object
\* allocated before it still being there.
C28_FirstErrorStops ==
    WalkOver =>
      /\ provided = (IF Failing = {} THEN EveryLeaf ELSE SubSeq(EveryLeaf, 1, FirstFailing))
      /\ walkErr = (IF Failing = {} THEN <<>>
                    ELSE <<ProviderError(EveryLeaf[FirstFailing].provider,
                                         EveryLeaf[FirstFailing].leaf)>>)
      /\ walkPc = "failed" => Failing # {}
      /\ walkPc = "returned" => Failing = {}
      /\ \A m \in DOMAIN provided :
           LeafAt("clif.WalkerA", root, objects, provided[m].leaf)
             = WrittenBy(provided, provided[m].leaf)
      /\ Len(objects) >= Len(began[1].heap)

\* the second provider fails at the leaf behind WalkerB.WalkerCPtr, after the
\* first has written it, and both have written the two leaves before it
C28_Witness ==
    /\ walkPc = "failed"
    /\ Len(given) = 2 /\ given[1].mark = "default" /\ given[2].mark = "env"
    /\ walkErr = <<ProviderError(2, <<3, 3, 2>>)>>
    /\ root[2].s = "env" /\ root[3].f[2].f[2].s = "env"
    /\ root[3].f[3].p # NIL /\ objects[root[3].f[3].p].fields[2].s = "default"
    /\ began[1].value[3].f[3].p = NIL
    /\ root[4].p # NIL /\ objects[root[4].p].fields[2].f[2].s = ""

\* the field is unexported and not convertible to a pointer to Configuration
Skipped(decl) == ~decl.exported /\ ~CanConvert(decl.type, configurationTypePtr)
\* the unexported fields of a struct of type t, and of what the walk reaches
\* from it, hold in (v1, h1) what they held in (v0, h0), and what an
\* unexported pointer points to is as it was
RECURSIVE Untouched(_, _, _, _, _)
Untouched(t, v0, h0, v1, h1) ==
    \A k \in 1..NumField(t) :
      LET decl == TypeFields(t)[k]
      IN IF Skipped(decl)
           THEN /\ v1[k] = v0[k]
                /\ decl.type.kind = "ptr" /\ v0[k].p # NIL => h1[v0[k].p] = h0[v0[k].p]
         ELSE CASE decl.type.kind = "struct" ->
                     Untouched(decl.type.base, v0[k].f, h0, v1[k].f, h1)
                [] decl.type.kind = "ptr" ->
                     \/ v1[k].p = NIL /\ v0[k].p = NIL
                     \/ Untouched(decl.type.base,
                                  IF v0[k].p = NIL THEN Zero(decl.type.base)
                                  ELSE h0[v0[k].p].fields,
                                  h0, h1[v1[k].p].fields, h1)
                [] OTHER -> TRUE

\* C29: a walk leaves every unexported field that is not convertible to a
\* pointer to Configuration as it was, at every depth: it is not written, a nil
\* pointer stays nil, what a pointer points to is not walked, no provider is
\* applied to it and no error is returned for it.
C29_UnexportedUntouched ==
    WalkOver =>
      /\ Untouched("clif.WalkerA", began[1].value, began[1].heap, root, objects)
      /\ \A m \in DOMAIN provided : provided[m].leaf \in LeafPaths("clif.WalkerA")
      /\ \A m \in DOMAIN walkErr : walkErr[m].leaf \in LeafPaths("clif.WalkerA")

\* a walk whose providers wrote every exported leaf has passed over the
\* caller's unexported leaves and over the WalkerC behind `cache`
C29_Witness ==
    /\ walkPc = "returned"
    /\ Len(given) = 2 /\ given[1].mark = "default" /\ given[2].mark = "env"
    /\ root[2].s = "env" /\ root[1].s = CallerSet /\ root[3].f[2].f[1].s = CallerSet
    /\ objects[root[4].p].fields[1].p = 5
    /\ objects[5] = began[1].heap[5] /\ objects[5].fields[2].s = CallerSet
    /\ objects[objects[root[4].p].fields[3].p].fields[2].s = "env"
    /\ root[3].f[1].p = NIL

\* ------------------------------------------------------------------ section errors
\* the key unmarshalLoad visited last
LastVisited == visited[Len(visited)]

\* C31 (as stated): when unmarshalLoad returns at a section whose value is not
\* a mapping, the error carries that section's own code: ErrUnmarshalLoggerData
\* for "logger", ErrUnmarshalConsoleData for "console".
C31_Original ==
    (/\ loadPc = "returned"
     /\ visited # <<>>
     /\ LastVisited \in {"logger", "console"}
     /\ ~values[LastVisited].isMap)
      => /\ loadResult.err # <<>>
         /\ loadResult.err[1].Code = (IF LastVisited = "logger" THEN ErrUnmarshalLoggerData
                                       ELSE ErrUnmarshalConsoleData)

\* ------------------------------------------------------------------ watcher of a failed InitConfig
\* C32 (as stated): when InitConfig has returned an error, no watch task has
\* been started and left running for the Core Configuration it made.
C32_Original ==
    (Done /\ result.status = "returned" /\ result.err # <<>>) => c \notin watching

\* ------------------------------------------------------------------ InitConfig returns
\* C33 (as stated): InitConfig called with a pointer that is not nil to
\* something that is not a struct returns an error: it does not panic.
C33_Original ==
    (Done /\ arg \in NonStructArguments)
      => /\ result.status = "returned"
         /\ result.err # <<>>

\* ------------------------------------------------------------------ stopping a console
\* C34 (as stated): for each console, stopConsole, which calls the stop-notify
\* function and restores the terminal, runs at most once.
C34_Original == \A k \in DOMAIN consoles : consoles[k].stops <= 1

\* C35 (as stated): a step that stops a console that is not the singleton
\* leaves the singleton as it is.
C35_Original ==
    [][\A k \in DOMAIN consoles :
         (consoles'[k].stops > consoles[k].stops /\ singletonConsole # k)
           => singletonConsole' = singletonConsole]_vars

\* C36 (as stated): the resize callback of a console is never called after a
\* call of StopConsole on that console has returned.
C36_Original == \A k \in DOMAIN consoles : ~consoles[k].late

\* ------------------------------------------------------------------ keyboard
\* C37: the reader task calls the stop-notify function it was given exactly
\* once, in the step in which it returns, whether it returns on the cancelled
\* context or on a false request, and not before; once it has returned no key
\* is sent and nothing of the keyboard changes by the task.
C37_StopNotifyOnce ==
    /\ [](kbPc = "returned" => stopCalls = (IF stopFunc THEN 1 ELSE 0))
    /\ [](kbPc # "returned" => stopCalls = 0)
    /\ [][kbPc = "returned"
            => kbPc' = "returned" /\ sentKeys' = sentKeys /\ stopCalls' = stopCalls]_vars

\* the task has sent a key and has returned on a false request, the context
\* not cancelled, with its one call of the stop-notify function
C37_Witness ==
    /\ kbPc = "returned" /\ stopFunc /\ stopCalls = 1
    /\ sentKeys >= 1 /\ ~kbCtx

\* C38 (as stated): whenever the task is back at its select, every read of
\* standard input that gave bytes (one to five of them) has been answered by
\* one key on the keyboard channel.
C38_Original == kbPc = "select" => sentKeys = reads

\* ------------------------------------------------------------------ logger
\* the last n elements of a sequence, or all of it
LastOf(q, n) == IF Len(q) <= n THEN q ELSE SubSeq(q, Len(q) - n + 1, Len(q))

\* C39: whatever calls of History.add have been made, by one goroutine or by
\* two at a time, the history holds at most HistoryMax messages and they are
\* the last that were appended, in the order they were appended: the oldest
\* is dropped first.
C39_HistoryBounded ==
    /\ Len(messages) <= HistoryMax
    /\ messages = LastOf(appended, HistoryMax)

\* more than HistoryMax messages have been added, the last two by two
\* goroutines of which the one that called later appended first
C39_Witness ==
    /\ Len(appended) = HistoryMax + 2
    /\ Len(messages) = HistoryMax
    /\ messages[HistoryMax] < messages[HistoryMax - 1]
    /\ messages[1] = 3

\* C40 (as stated): no logging call on the Logger NewLogger returned fails.
C40_Original == \A g \in Goroutines : logPc[g] # "panic"

====
